---- MODULE Spec2Model ----
(***************************************************************************)
(* Model of the reconciler of the sync server (voice-core, sync_server.rs) *)
(* and of the store primitives it calls.  The store is one device's        *)
(* database: the notes, tags and note_tags tables, the conflict tables and *)
(* the sync_peers table that holds one watermark (last_sync_at) per peer.  *)
(* Timestamps are the instants 1..MaxTime; the code compares them as       *)
(* strings of one format, which orders them as the instants are ordered.   *)
(*                                                                         *)
(* No handler of the reconciler reads a table other than its own, so a     *)
(* behaviour addresses one table (scope): the reachable states are the     *)
(* union of the three tables' states instead of their product.             *)
(*                                                                         *)
(* A handler is an operator from the database and the request to the       *)
(* database it leaves and the response; its action installs that database. *)
(* A property of a response is stated over every request the handler can   *)
(* receive in a reachable state.                                           *)
(***************************************************************************)
EXTENDS Integers, Sequences, FiniteSets, TLC

\* The instants a clock or a payload can show, and the longest batch.
MaxTime == 3
MaxBatch == 2

\* Option::None of an optional timestamp; it is below every instant, as the
\* empty string of unwrap_or("") is below every timestamp string.
None == 0
Times == 1..MaxTime
OptTimes == {None} \cup Times

\* Option::None of an optional id (a tag's parent_id).
NoId == "none"

NoteIds == {"n1"}
TagIds == {"x", "y"}
Contents == {"v1", "v2"}
Names == {"a", "b"}
Peers == {"peerA", "peerB"}

NoteTagIds == {<<"n1", "x">>}
Scopes == {"note", "tag", "note_tag"}

VARIABLES
    notes,       \* notes table: note id -> row
    tags,        \* tags table: tag id -> row
    note_tags,   \* note_tags table: <<note id, tag id>> -> row
    sync_peers,  \* sync_peers table: peer id -> last_sync_at
    conflicts,   \* conflict tables: the unresolved conflict records
    now,         \* this device's clock (Utc::now())
    scope,       \* the entity type the peers' changes of this behaviour carry
    request,     \* the apply request that holds the database lock, step by step
    pager,       \* a client that pages through GET /sync/changes
    remote,      \* the other device of a sync round: its database and clock
    config,      \* the configuration: config.json and the Config in memory
    server       \* the server process: start_server, stop_server, handlers

vars == <<notes, tags, note_tags, sync_peers, conflicts, now, scope,
          request, pager, remote, config, server>>

\* What the reconciler and the feed leave alone.
env == <<remote, config, server>>

\* A row that is not in its table (the raw accessor returns None).
NoRow == [exists |-> FALSE]

\* No apply request is in progress.
NoRequest ==
    [pc |-> "idle", peer |-> NoId, changes |-> <<>>, rest |-> <<>>,
     last_sync_at |-> None, results |-> <<>>, faults |-> {}, writes |-> 0,
     before |-> NoRow]

\* No client is paging.
NoPager ==
    [pc |-> "idle", from |-> None, since |-> None, limit |-> 0,
     got |-> [s \in {"note", "tag", "note_tag"} |-> {}]]

\* No other device, no configuration directory and no server process are
\* part of the behaviour.
NoRemote == [pc |-> "none"]

NoConfig == [pc |-> "none"]

NoServer == [pc |-> "none"]

\* The database the handlers work on, as one value.
DB == [notes |-> notes, tags |-> tags, note_tags |-> note_tags,
       sync_peers |-> sync_peers, conflicts |-> conflicts]

----------------------------------------------------------------------------
\* Store primitives (Database)

\* A peer without a row has no watermark; its first watermark inserts the row.
get_peer_last_sync(db, peer) ==
    IF peer \in DOMAIN db.sync_peers THEN db.sync_peers[peer] ELSE None

update_peer_sync_time(db, peer, clock) ==
    IF peer \in DOMAIN db.sync_peers
    THEN [db EXCEPT !.sync_peers[peer] = clock]
    ELSE [db EXCEPT !.sync_peers = @ @@ (peer :> clock)]

get_note_raw(db, note_id) == db.notes[note_id]

get_tag_raw(db, tag_id) == db.tags[tag_id]

get_note_tag_raw(db, note_id, tag_id) ==
    IF <<note_id, tag_id>> \in DOMAIN db.note_tags
    THEN db.note_tags[<<note_id, tag_id>>] ELSE NoRow

apply_sync_note(db, note_id, created_at, content, modified_at, deleted_at) ==
    [db EXCEPT !.notes[note_id] =
        [exists |-> TRUE, created_at |-> created_at, content |-> content,
         modified_at |-> modified_at, deleted_at |-> deleted_at]]

apply_sync_tag(db, tag_id, name, parent_id, created_at, modified_at) ==
    [db EXCEPT !.tags[tag_id] =
        [exists |-> TRUE, name |-> name, parent_id |-> parent_id,
         created_at |-> created_at, modified_at |-> modified_at]]

apply_sync_note_tag(db, note_id, tag_id, created_at, modified_at, deleted_at) ==
    [db EXCEPT !.note_tags[<<note_id, tag_id>>] =
        [exists |-> TRUE, created_at |-> created_at,
         modified_at |-> modified_at, deleted_at |-> deleted_at]]

----------------------------------------------------------------------------
\* The reconciler

\* Option::or
OrElse(a, b) == IF a # None THEN a ELSE b

\* The watermark test with a strict comparison: a change stamped exactly at
\* the watermark passes it.
AtOrBeforeLastSyncStrict(last_sync_at, incoming_time) ==
    /\ last_sync_at # None
    /\ incoming_time # None
    /\ incoming_time < last_sync_at

\* if let (Some(last), Some(incoming)) = ... { if incoming <= last { Skipped } }
AtOrBeforeLastSync(last_sync_at, incoming_time) ==
    /\ last_sync_at # None
    /\ incoming_time # None
    /\ incoming_time <= last_sync_at

\* local_changed with an inclusive comparison: a row stamped exactly at the
\* watermark counts as changed.
LocalChangedInclusive(last_sync_at, local_time) ==
    \/ last_sync_at = None
    \/ (local_time # None /\ local_time >= last_sync_at)

\* last_sync_at.is_none() || local_time.map_or(false, |lt| lt > last)
LocalChanged(last_sync_at, local_time) ==
    \/ last_sync_at = None
    \/ (local_time # None /\ local_time > last_sync_at)

Res(result, db) == [result |-> result, db |-> db]

apply_note_change(db, change, last_sync_at) ==
    LET note_id == change.entity_id
        data == change.data
        existing == get_note_raw(db, note_id)
        written == apply_sync_note(db, note_id, data.created_at, data.content,
                                   data.modified_at, data.deleted_at)
    IN  CASE change.operation = "create" ->
                IF existing.exists THEN Res("Skipped", db)
                ELSE Res("Applied", written)
          [] change.operation \in {"update", "delete"} ->
                IF ~existing.exists THEN Res("Applied", written)
                ELSE
                  LET local_time == OrElse(existing.modified_at, existing.deleted_at)
                      local_changed == LocalChanged(last_sync_at, local_time)
                      incoming_time == OrElse(data.modified_at, data.deleted_at)
                  IN  IF AtOrBeforeLastSync(last_sync_at, incoming_time)
                      THEN Res("Skipped", db)
                      ELSE \* local_changed: remote wins, no conflict is detected
                           Res("Applied", written)
          [] OTHER -> Res("Skipped", db)

apply_tag_change(db, change, last_sync_at) ==
    LET tag_id == change.entity_id
        data == change.data
        existing == get_tag_raw(db, tag_id)
        written == apply_sync_tag(db, tag_id, data.name, data.parent_id,
                                  data.created_at, data.modified_at)
    IN  CASE change.operation = "create" ->
                IF existing.exists THEN Res("Skipped", db)
                ELSE Res("Applied", written)
          [] change.operation = "update" ->
                IF ~existing.exists THEN Res("Applied", written)
                ELSE
                  LET incoming_time == data.modified_at
                  IN  IF AtOrBeforeLastSync(last_sync_at, incoming_time)
                      THEN Res("Skipped", db)
                      ELSE Res("Applied", written)
          [] OTHER -> Res("Skipped", db)

\* The timestamp apply_note_tag_change reads as the change's own.
note_tag_incoming_time(change) ==
    IF change.operation = "delete"
    THEN OrElse(change.data.deleted_at, change.data.modified_at)
    ELSE OrElse(change.data.modified_at, change.data.created_at)

\* local_changed of apply_note_tag_change
note_tag_local_changed(existing, last_sync_at) ==
    IF existing.exists
    THEN LocalChanged(last_sync_at,
             OrElse(OrElse(existing.modified_at, existing.deleted_at),
                    existing.created_at))
    ELSE FALSE

\* A reactivation that never notifies.
AlwaysApplied(local_changed) == "Applied"

\* if local_changed { Conflict } else { Applied }
ConflictIf(local_changed) == IF local_changed THEN "Conflict" ELSE "Applied"

\* "create" arm of apply_note_tag_change
note_tag_create(db, note_id, tag_id, data, existing, local_changed) ==
    IF existing.exists
    THEN IF existing.deleted_at = None
         THEN Res("Skipped", db)
         ELSE Res(ConflictIf(local_changed),
                  apply_sync_note_tag(db, note_id, tag_id, existing.created_at,
                                      data.modified_at, None))
    ELSE Res("Applied",
             apply_sync_note_tag(db, note_id, tag_id, data.created_at,
                                 data.modified_at, None))

\* A "delete" arm that stores the payload's created_at with the delete.
note_tag_delete_restamping(db, note_id, tag_id, data, existing, local_changed) ==
    IF ~existing.exists
    THEN Res("Applied",
             apply_sync_note_tag(db, note_id, tag_id, data.created_at,
                                 data.modified_at, data.deleted_at))
    ELSE IF existing.deleted_at # None
    THEN Res("Skipped", db)
    ELSE IF local_changed
    THEN Res("Conflict", db)
    ELSE Res("Applied",
             apply_sync_note_tag(db, note_id, tag_id, data.created_at,
                                 data.modified_at, data.deleted_at))

\* "delete" arm of apply_note_tag_change
note_tag_delete(db, note_id, tag_id, data, existing, local_changed) ==
    IF ~existing.exists
    THEN Res("Applied",
             apply_sync_note_tag(db, note_id, tag_id, data.created_at,
                                 data.modified_at, data.deleted_at))
    ELSE IF existing.deleted_at # None
    THEN Res("Skipped", db)
    ELSE IF local_changed
    THEN Res("Conflict", db)
    ELSE Res("Applied",
             apply_sync_note_tag(db, note_id, tag_id, existing.created_at,
                                 data.modified_at, data.deleted_at))

\* An "update" arm that skips a change whose deleted state is the local one.
note_tag_update_skipping(db, note_id, tag_id, data, existing, local_changed) ==
    IF ~existing.exists
    THEN Res("Applied",
             apply_sync_note_tag(db, note_id, tag_id, data.created_at,
                                 data.modified_at, data.deleted_at))
    ELSE
    LET remote_deleted == data.deleted_at # None
        local_deleted == existing.deleted_at # None
        ex_created_at == existing.created_at
    IN  IF ~remote_deleted /\ local_deleted
        THEN Res(ConflictIf(local_changed),
                 apply_sync_note_tag(db, note_id, tag_id, ex_created_at,
                                     data.modified_at, None))
        ELSE IF remote_deleted /\ ~local_deleted
        THEN IF local_changed
             THEN Res("Conflict", db)
             ELSE Res("Applied",
                      apply_sync_note_tag(db, note_id, tag_id, ex_created_at,
                                          data.modified_at, data.deleted_at))
        ELSE Res("Skipped", db)

\* "update" arm of apply_note_tag_change
note_tag_update(db, note_id, tag_id, data, existing, local_changed) ==
    IF ~existing.exists
    THEN Res("Applied",
             apply_sync_note_tag(db, note_id, tag_id, data.created_at,
                                 data.modified_at, data.deleted_at))
    ELSE
    LET remote_deleted == data.deleted_at # None
        local_deleted == existing.deleted_at # None
        ex_created_at == existing.created_at
    IN  IF ~remote_deleted /\ local_deleted
        THEN Res(ConflictIf(local_changed),
                 apply_sync_note_tag(db, note_id, tag_id, ex_created_at,
                                     data.modified_at, None))
        ELSE IF remote_deleted /\ ~local_deleted
        THEN IF local_changed
             THEN Res("Conflict", db)
             ELSE Res("Applied",
                      apply_sync_note_tag(db, note_id, tag_id, ex_created_at,
                                          data.modified_at, data.deleted_at))
        ELSE \* both have the same deleted state: update timestamps
             Res("Applied",
                 apply_sync_note_tag(db, note_id, tag_id, ex_created_at,
                                     data.modified_at, data.deleted_at))

apply_note_tag_change(db, change, last_sync_at) ==
    LET parts == change.entity_id
    IN  IF Len(parts) # 2 THEN Res("Skipped", db)
        ELSE
        LET note_id == parts[1]
            tag_id == parts[2]
            data == change.data
            incoming_time == note_tag_incoming_time(change)
        IN  IF AtOrBeforeLastSync(last_sync_at, incoming_time)
            THEN Res("Skipped", db)
            ELSE
            LET existing == get_note_tag_raw(db, note_id, tag_id)
                local_changed == note_tag_local_changed(existing, last_sync_at)
            IN  CASE change.operation = "create" ->
                      note_tag_create(db, note_id, tag_id, data, existing,
                                      local_changed)
                  [] change.operation = "delete" ->
                      note_tag_delete(db, note_id, tag_id, data, existing,
                                      local_changed)
                  [] change.operation = "update" ->
                      note_tag_update(db, note_id, tag_id, data, existing,
                                      local_changed)
                  [] OTHER -> Res("Skipped", db)

\* match change.entity_type; an unknown type is pushed to errors
apply_change(db, change, last_sync_at) ==
    CASE change.entity_type = "note" -> apply_note_change(db, change, last_sync_at)
      [] change.entity_type = "tag" -> apply_tag_change(db, change, last_sync_at)
      [] change.entity_type = "note_tag" ->
            apply_note_tag_change(db, change, last_sync_at)
      [] OTHER -> Res("Error", db)

\* for change in changes { ... }: the database after the loop and each
\* change's result
RECURSIVE apply_loop(_, _, _)
apply_loop(db, changes, last_sync_at) ==
    IF changes = <<>> THEN [db |-> db, results |-> <<>>]
    ELSE LET r == apply_change(db, Head(changes), last_sync_at)
             rest == apply_loop(r.db, Tail(changes), last_sync_at)
         IN  [db |-> rest.db, results |-> <<r.result>> \o rest.results]

Count(results, v) == Cardinality({i \in DOMAIN results : results[i] = v})

\* The batch applied without recording the exchange.
apply_sync_changes_unrecorded(db, changes, peer_device_id, clock) ==
    LET last_sync_at == get_peer_last_sync(db, peer_device_id)
        loop == apply_loop(db, changes, last_sync_at)
    IN  [db |-> loop.db,
         results |-> loop.results,
         applied |-> Count(loop.results, "Applied"),
         conflicts |-> Count(loop.results, "Conflict"),
         errors |-> Count(loop.results, "Error")]

apply_sync_changes(db, changes, peer_device_id, clock) ==
    LET last_sync_at == get_peer_last_sync(db, peer_device_id)
        loop == apply_loop(db, changes, last_sync_at)
    IN  [db |-> update_peer_sync_time(loop.db, peer_device_id, clock),
         results |-> loop.results,
         applied |-> Count(loop.results, "Applied"),
         conflicts |-> Count(loop.results, "Conflict"),
         errors |-> Count(loop.results, "Error")]

----------------------------------------------------------------------------
\* apply_sync_changes step by step: the request keeps the changes still to
\* process (rest), each processed change's result, the changes whose store
\* call returned an error (faults), the number of update_peer_sync_time
\* calls made (writes) and the database as the request found it (before).

EntityTypes == {"note", "tag", "note_tag"}

\* db.lock(); the counters; last_sync_at = db.get_peer_last_sync(peer)?
begin(db, changes, peer_device_id) ==
    [pc |-> "loop", peer |-> peer_device_id, changes |-> changes,
     rest |-> changes, last_sync_at |-> get_peer_last_sync(db, peer_device_id),
     results |-> <<>>, faults |-> {}, writes |-> 0, before |-> db]

\* An iteration that gives up the batch at the first change that fails.
step_aborting(req, db, fault) ==
    LET change == Head(req.rest)
        r == IF fault THEN Res("Error", db)
             ELSE apply_change(db, change, req.last_sync_at)
    IN  [req |-> [req EXCEPT
                    !.rest = IF r.result = "Error" THEN <<>> ELSE Tail(@),
                    !.results = Append(@, r.result),
                    !.faults = IF fault THEN @ \cup {Len(req.results) + 1}
                               ELSE @],
         db |-> r.db]

\* One iteration of for change in changes.  With fault, the store call of the
\* change's handler returns an error: the handler returns Err and the row is
\* not written.
step(req, db, fault) ==
    LET change == Head(req.rest)
        r == IF fault THEN Res("Error", db)
             ELSE apply_change(db, change, req.last_sync_at)
    IN  [req |-> [req EXCEPT
                    !.rest = Tail(@),
                    !.results = Append(@, r.result),
                    !.faults = IF fault THEN @ \cup {Len(req.results) + 1}
                               ELSE @],
         db |-> r.db]

\* An end of the batch that records the watermark only when a change was
\* applied.
finish_if_applied(req, db, clock) ==
    IF Count(req.results, "Applied") = 0
    THEN [req |-> [req EXCEPT !.pc = "done"], db |-> db]
    ELSE [req |-> [req EXCEPT !.pc = "done", !.writes = @ + 1],
          db |-> update_peer_sync_time(db, req.peer, clock)]

\* db.update_peer_sync_time(peer_device_id, peer_device_name)?; Ok(totals)
finish(req, db, clock) ==
    [req |-> [req EXCEPT !.pc = "done", !.writes = @ + 1],
     db |-> update_peer_sync_time(db, req.peer, clock)]

\* The totals of Ok((applied, conflicts, errors))
totals(req) ==
    [applied |-> Count(req.results, "Applied"),
     conflicts |-> Count(req.results, "Conflict"),
     errors |-> Count(req.results, "Error")]

----------------------------------------------------------------------------
\* The HTTP handlers of /sync/handshake and /sync/apply

\* A device id is a string of characters.
DeviceIdLen == 32
HexDigits ==
    {"0", "1", "2", "3", "4", "5", "6", "7", "8", "9",
     "a", "b", "c", "d", "e", "f", "A", "B", "C", "D", "E", "F"}

Repeat(ch, n) == [i \in 1..n |-> ch]

\* The device ids of the two peers, and the row key of a device id in
\* sync_peers (any other device is a stranger).
DeviceIdOf(peer) ==
    IF peer = "peerA" THEN Repeat("a", DeviceIdLen) ELSE Repeat("B", DeviceIdLen)

PeerOf(device_id) ==
    IF \E p \in Peers : DeviceIdOf(p) = device_id
    THEN CHOOSE p \in Peers : DeviceIdOf(p) = device_id
    ELSE "stranger"

\* A test of the length alone.
device_id_has_length(device_id) == Len(device_id) = DeviceIdLen

\* !(device_id.len() != 32 || !device_id.chars().all(|c| c.is_ascii_hexdigit()))
valid_device_id(device_id) ==
    /\ Len(device_id) = DeviceIdLen
    /\ \A i \in DOMAIN device_id : device_id[i] \in HexDigits

BadRequest(db) ==
    [status |-> 400, body |-> [error |-> "Invalid device_id format"], db |-> db]

\* POST /sync/handshake
handshake(db, device_id) ==
    IF ~valid_device_id(device_id) THEN BadRequest(db)
    ELSE [status |-> 200,
          body |-> [last_sync_timestamp |->
                        get_peer_last_sync(db, PeerOf(device_id))],
          db |-> db]

\* POST /sync/apply
apply_changes(db, device_id, changes, clock) ==
    IF ~valid_device_id(device_id) THEN BadRequest(db)
    ELSE LET out == apply_sync_changes(db, changes, PeerOf(device_id), clock)
         IN  [status |-> 200,
              body |-> [applied |-> out.applied, conflicts |-> out.conflicts,
                        errors |-> out.errors],
              db |-> out.db]

----------------------------------------------------------------------------
\* The changes feed: get_changes_since and GET /sync/changes

\* The limit of a query without one, and the largest limit in force.
DefaultLimit == 1000
MaxLimit == 10000

Min(a, b) == IF a <= b THEN a ELSE b
Max(a, b) == IF a >= b THEN a ELSE b

\* ORDER BY key: the selected ids by ascending key.  Rows of equal key come
\* in the order the storage engine yields them, which is the order of ord.
OrderBy(selected, key, ord) ==
    LET pos(i) == CHOOSE k \in DOMAIN ord : ord[k] = i
        before(j, i) ==
            key[j] < key[i] \/ (key[j] = key[i] /\ pos(j) < pos(i))
        rank(i) == Cardinality({j \in selected : before(j, i)})
    IN  [r \in 1..Cardinality(selected) |->
            CHOOSE i \in selected : rank(i) = r - 1]

\* LIMIT ?: the first limit rows; a negative limit is no limit (SQLite).
LimitRows(rows, limit) ==
    IF limit < 0 THEN rows ELSE SubSeq(rows, 1, Min(limit, Len(rows)))

\* WHERE modified_at > ? OR (modified_at IS NULL AND created_at > ?), or no
\* WHERE clause without since (notes and tags)
ModifiedOrCreatedAfter(row, since) ==
    \/ since = None
    \/ (row.modified_at # None /\ row.modified_at > since)
    \/ (row.modified_at = None /\ row.created_at > since)

\* WHERE created_at > ? OR deleted_at > ? OR modified_at > ? (note_tags)
AnyStampAfter(row, since) ==
    \/ since = None
    \/ row.created_at > since
    \/ (row.deleted_at # None /\ row.deleted_at > since)
    \/ (row.modified_at # None /\ row.modified_at > since)

\* The rows of a table a query yields, as ids: selected, ordered by
\* COALESCE(modified_at, created_at) or
\* COALESCE(modified_at, deleted_at, created_at), limited.
QueryNotes(db, since, limit, ord) ==
    LET selected == {n \in DOMAIN db.notes :
                        /\ db.notes[n].exists
                        /\ ModifiedOrCreatedAfter(db.notes[n], since)}
        key == [n \in selected |->
                   OrElse(db.notes[n].modified_at, db.notes[n].created_at)]
    IN  LimitRows(OrderBy(selected, key, ord), limit)

QueryTags(db, since, limit, ord) ==
    LET selected == {t \in DOMAIN db.tags :
                        /\ db.tags[t].exists
                        /\ ModifiedOrCreatedAfter(db.tags[t], since)}
        key == [t \in selected |->
                   OrElse(db.tags[t].modified_at, db.tags[t].created_at)]
    IN  LimitRows(OrderBy(selected, key, ord), limit)

QueryNoteTags(db, since, limit, ord) ==
    LET selected == {p \in DOMAIN db.note_tags :
                        /\ db.note_tags[p].exists
                        /\ AnyStampAfter(db.note_tags[p], since)}
        key == [p \in selected |->
                   OrElse(OrElse(db.note_tags[p].modified_at,
                                 db.note_tags[p].deleted_at),
                          db.note_tags[p].created_at)]
    IN  LimitRows(OrderBy(selected, key, ord), limit)

\* The SyncChange pushed for a row
note_change(id, row) ==
    [entity_type |-> "note", entity_id |-> id,
     operation |-> IF row.deleted_at # None THEN "delete"
                   ELSE IF row.modified_at # None THEN "update" ELSE "create",
     data |-> [created_at |-> row.created_at, content |-> row.content,
               modified_at |-> row.modified_at, deleted_at |-> row.deleted_at],
     timestamp |-> OrElse(OrElse(row.modified_at, row.deleted_at),
                          row.created_at)]

tag_change(id, row) ==
    [entity_type |-> "tag", entity_id |-> id,
     operation |-> IF row.modified_at # None THEN "update" ELSE "create",
     data |-> [name |-> row.name, parent_id |-> row.parent_id,
               created_at |-> row.created_at, modified_at |-> row.modified_at],
     timestamp |-> OrElse(row.modified_at, row.created_at)]

note_tag_change(id, row) ==
    [entity_type |-> "note_tag", entity_id |-> id,
     operation |-> IF row.deleted_at # None THEN "delete"
                   ELSE IF row.modified_at # None THEN "update" ELSE "create",
     data |-> [created_at |-> row.created_at, modified_at |-> row.modified_at,
               deleted_at |-> row.deleted_at],
     timestamp |-> OrElse(OrElse(row.modified_at, row.deleted_at),
                          row.created_at)]

\* latest_timestamp after the changes pushed
RECURSIVE Latest(_)
Latest(changes) ==
    IF changes = <<>> THEN None
    ELSE Max(Head(changes).timestamp, Latest(Tail(changes)))

\* get_changes_since: the notes, then the tags and the note_tags if the
\* limit is not reached.  ord gives the storage order of each table's rows.
get_changes_since(db, since, limit, ord) ==
    LET note_ids == QueryNotes(db, since, limit, ord.notes)
        from_notes == [i \in DOMAIN note_ids |->
                          note_change(note_ids[i], db.notes[note_ids[i]])]
        remaining == limit - Len(from_notes)
        tag_ids == IF remaining > 0
                   THEN QueryTags(db, since, remaining, ord.tags) ELSE <<>>
        from_tags == [i \in DOMAIN tag_ids |->
                         tag_change(tag_ids[i], db.tags[tag_ids[i]])]
        remaining2 == limit - Len(from_notes) - Len(from_tags)
        note_tag_ids == IF remaining2 > 0
                        THEN QueryNoteTags(db, since, remaining2, ord.note_tags)
                        ELSE <<>>
        from_note_tags ==
            [i \in DOMAIN note_tag_ids |->
                note_tag_change(note_tag_ids[i], db.note_tags[note_tag_ids[i]])]
        changes == from_notes \o from_tags \o from_note_tags
    IN  [changes |-> changes, latest_timestamp |-> Latest(changes)]

\* query.limit.unwrap_or(1000).min(10000); a query is a record with the
\* field since and, if the client gave one, the field limit.
limit_in_force(query) ==
    Min(IF "limit" \in DOMAIN query THEN query.limit ELSE DefaultLimit, MaxLimit)

\* is_complete with the comparison the other way round
fewer_or_equal(count, limit) == count <= limit

\* is_complete: (changes.len() as i64) < limit
is_complete(count, limit) == count < limit

\* GET /sync/changes
get_changes(db, query, ord) ==
    LET limit == limit_in_force(query)
        out == get_changes_since(db, query.since, limit, ord)
    IN  [changes |-> out.changes,
         from_timestamp |-> query.since,
         to_timestamp |-> out.latest_timestamp,
         is_complete |-> is_complete(Len(out.changes), limit)]

----------------------------------------------------------------------------
\* Changes a peer can send

Operations == {"create", "update", "delete"}

\* The operation the changes feed derives from a row's timestamps.
FeedOperation(modified_at, deleted_at) ==
    IF deleted_at # None THEN "delete"
    ELSE IF modified_at # None THEN "update" ELSE "create"

NoteChange(op, c, content, m, d) ==
    [entity_type |-> "note", entity_id |-> "n1", operation |-> op,
     data |-> [created_at |-> c, content |-> content,
               modified_at |-> m, deleted_at |-> d]]

TagChange(id, op, name, parent, c, m) ==
    [entity_type |-> "tag", entity_id |-> id, operation |-> op,
     data |-> [name |-> name, parent_id |-> parent,
               created_at |-> c, modified_at |-> m]]

NoteTagChange(id, op, c, m, d) ==
    [entity_type |-> "note_tag", entity_id |-> id, operation |-> op,
     data |-> [created_at |-> c, modified_at |-> m, deleted_at |-> d]]

\* The feed's changes of a note created at instant 1 with content v1, then
\* edited to v2 or deleted at any instant.
FeedNoteChanges ==
    {NoteChange("create", 1, "v1", None, None)}
    \cup {NoteChange("update", 1, "v2", m, None) : m \in Times}
    \cup {NoteChange("delete", 1, "v1", None, d) : d \in Times}

\* The feed's changes of the tags x (root, named a) and y (child of x, named
\* b), and of x renamed to b or moved under y at any instant.
FeedTagChanges ==
    {TagChange("x", "create", "a", NoId, 1, None),
     TagChange("y", "create", "b", "x", 1, None)}
    \cup {TagChange("x", "update", "b", NoId, 1, m) : m \in Times}
    \cup {TagChange("x", "update", "a", "y", 1, m) : m \in Times}

\* The feed's changes of the association of n1 and x, attached at instant 1,
\* then detached or attached again at any instant.
FeedNoteTagChanges ==
    {NoteTagChange(<<"n1", "x">>, "create", 1, None, None)}
    \cup {NoteTagChange(<<"n1", "x">>, "delete", 1, None, d) : d \in Times}
    \cup {NoteTagChange(<<"n1", "x">>, "update", 1, m, None) : m \in Times}

FeedChanges(s) ==
    CASE s = "note" -> FeedNoteChanges
      [] s = "tag" -> FeedTagChanges
      [] s = "note_tag" -> FeedNoteTagChanges

\* A row is never modified or deleted before it is created.
WellStamped(c, m, d) == (m = None \/ m >= c) /\ (d = None \/ d >= c)

\* Every note-tag change a client can post for the association of n1 and x:
\* any operation with any well-stamped payload, and one change with a
\* malformed entity id.
NoteTagChanges ==
    {NoteTagChange(id, op, st[1], st[2], st[3]) :
        id \in NoteTagIds, op \in Operations,
        st \in {t \in Times \X OptTimes \X OptTimes :
                    WellStamped(t[1], t[2], t[3])}}
    \cup {NoteTagChange(<<"n1">>, "create", 1, None, None)}

WellStampedTimes ==
    {t \in Times \X OptTimes \X OptTimes : WellStamped(t[1], t[2], t[3])}

\* Every note change a client can post for n1: any operation with any content
\* and any well-stamped payload.
NoteChanges ==
    {NoteChange(op, st[1], content, st[2], st[3]) :
        op \in Operations, content \in Contents, st \in WellStampedTimes}

\* Every tag change a client can post for x (any name, any parent, x itself
\* included) and for y (named b, a root or a child of x), created at
\* instant 1, and one change with an operation the handler does not know.
TagChanges ==
    {TagChange("x", op, name, parent, 1, m) :
        op \in {"create", "update"}, name \in Names,
        parent \in {NoId, "x", "y"}, m \in OptTimes}
    \cup {TagChange("y", op, "b", parent, 1, m) :
        op \in {"create", "update"}, parent \in {NoId, "x"}, m \in OptTimes}
    \cup {TagChange("x", "delete", "a", NoId, 1, None)}

BatchesOf(S) == UNION {[1..n -> S] : n \in 0..MaxBatch}

----------------------------------------------------------------------------
\* Actions

Init ==
    /\ notes = [n \in NoteIds |-> NoRow]
    /\ tags = [t \in TagIds |-> NoRow]
    /\ note_tags = [p \in NoteTagIds |-> NoRow]
    /\ sync_peers = [p \in Peers |-> None]
    /\ conflicts = {}
    /\ now = 1
    /\ scope \in Scopes
    /\ request = NoRequest
    /\ pager = NoPager
    /\ remote = NoRemote
    /\ config = NoConfig
    /\ server = NoServer

\* POST /sync/apply: the whole batch, under the database lock.
ApplyChanges(peer, changes) ==
    LET out == apply_sync_changes(DB, changes, peer, now)
    IN  /\ notes' = out.db.notes
        /\ tags' = out.db.tags
        /\ note_tags' = out.db.note_tags
        /\ sync_peers' = out.db.sync_peers
        /\ conflicts' = out.db.conflicts
        /\ UNCHANGED <<now, scope, request, pager, env>>

\* The clock advances.
Tick ==
    /\ now < MaxTime
    /\ now' = now + 1
    /\ UNCHANGED <<notes, tags, note_tags, sync_peers, conflicts, scope,
                   request, pager, env>>

\* The peer whose feed is pushed.
FeedPeer == "peerA"

\* The peer posts a batch of its feed's changes.
ApplyFeedBatch ==
    \E changes \in BatchesOf(FeedChanges(scope)) :
        ApplyChanges(FeedPeer, changes)

Next == ApplyFeedBatch \/ Tick

Spec == Init /\ [][Next]_vars

\* A change of an entity type the reconciler does not know.
UnknownChange ==
    [entity_type |-> "widget", entity_id |-> "w1", operation |-> "create",
     data |-> [created_at |-> 1, modified_at |-> None, deleted_at |-> None]]

\* The changes of the batches applied step by step: n1 created, n1 updated at
\* instant 1, and a change of an unknown type.
StepwiseChanges ==
    {NoteChange("create", 1, "v1", None, None),
     NoteChange("update", 1, "v2", 1, None),
     UnknownChange}

\* The batches a peer posts: the feed's peer any batch, another peer the
\* empty batch.
StepwiseBatches(peer) ==
    IF peer = FeedPeer THEN BatchesOf(StepwiseChanges) ELSE {<<>>}

\* The database a step leaves replaces the tables.
Install(db) ==
    /\ notes' = db.notes
    /\ tags' = db.tags
    /\ note_tags' = db.note_tags
    /\ sync_peers' = db.sync_peers
    /\ conflicts' = db.conflicts

\* POST /sync/apply takes the database lock and reads the peer's watermark.
BeginApply ==
    \E peer \in Peers : \E changes \in StepwiseBatches(peer) :
        /\ request.pc = "idle"
        /\ request' = begin(DB, changes, peer)
        /\ UNCHANGED <<notes, tags, note_tags, sync_peers, conflicts, now,
                       scope, pager, env>>

\* db.get_peer_last_sync(peer)? returns an error: apply_sync_changes returns
\* Err before any change is processed.
BeginApplyFails ==
    \E peer \in Peers : \E changes \in StepwiseBatches(peer) :
        /\ request.pc = "idle"
        /\ request' = [begin(DB, changes, peer) EXCEPT !.pc = "failed"]
        /\ UNCHANGED <<notes, tags, note_tags, sync_peers, conflicts, now,
                       scope, pager, env>>

\* The loop processes the next change; the store can fail a change of a known
\* type.
StepApply ==
    /\ request.pc = "loop"
    /\ request.rest # <<>>
    /\ \E fault \in BOOLEAN :
          /\ fault => Head(request.rest).entity_type \in EntityTypes
          /\ LET out == step(request, DB, fault)
             IN  /\ request' = out.req
                 /\ Install(out.db)
    /\ UNCHANGED <<now, scope, pager, env>>

\* After the loop the watermark is written and the totals are returned.
FinishApply ==
    /\ request.pc = "loop"
    /\ request.rest = <<>>
    /\ LET out == finish(request, DB, now)
       IN  /\ request' = out.req
           /\ Install(out.db)
    /\ UNCHANGED <<now, scope, pager, env>>

\* db.update_peer_sync_time(...)? returns an error: apply_sync_changes returns
\* Err and no totals.
FinishApplyFails ==
    /\ request.pc = "loop"
    /\ request.rest = <<>>
    /\ request' = [request EXCEPT !.pc = "failed"]
    /\ UNCHANGED <<notes, tags, note_tags, sync_peers, conflicts, now, scope,
                   pager, env>>

\* The response is sent and the lock released.
Respond ==
    /\ request.pc \in {"done", "failed"}
    /\ request' = NoRequest
    /\ UNCHANGED <<notes, tags, note_tags, sync_peers, conflicts, now, scope,
                   pager, env>>

InitStepwise == Init /\ scope = "note"

NextStepwise ==
    \/ BeginApply
    \/ BeginApplyFails
    \/ StepApply
    \/ FinishApply
    \/ FinishApplyFails
    \/ Respond
    \/ Tick

SpecStepwise == InitStepwise /\ [][NextStepwise]_vars

\* The device ids a request can carry: the peers' ids, an id one character
\* short, one too long, one with a character that is no hex digit, one with
\* hyphens, and the empty id.
DeviceIds ==
    {DeviceIdOf(p) : p \in Peers}
    \cup {Repeat("a", DeviceIdLen - 1), Repeat("a", DeviceIdLen + 1),
          [Repeat("a", DeviceIdLen) EXCEPT ![5] = "g"],
          [Repeat("a", DeviceIdLen) EXCEPT ![9] = "-"],
          <<>>}

\* The requests of one change at most.
RequestsOf(S) == {<<>>} \cup {<<c>> : c \in S}

\* A device posts to /sync/apply.
PostApply ==
    \E device_id \in DeviceIds, changes \in RequestsOf(FeedChanges(scope)) :
        /\ Install(apply_changes(DB, device_id, changes, now).db)
        /\ UNCHANGED <<now, scope, request, pager, env>>

NextHttp == PostApply \/ Tick

SpecHttp == Init /\ [][NextHttp]_vars

\* The changes the rows of a table come from: the feed's changes and, for
\* the association, its detaching after it was modified.
FeedWrites(s) ==
    IF s = "note_tag"
    THEN FeedNoteTagChanges
         \cup {NoteTagChange(<<"n1", "x">>, "delete", 1, st[1], st[2]) :
                 st \in {t \in Times \X Times : t[1] <= t[2]}}
    ELSE FeedChanges(s)

\* The orders a set's elements can come in.
Perms(S) ==
    {f \in [1..Cardinality(S) -> S] : \A e \in S : \E k \in DOMAIN f : f[k] = e}

\* The orders the storage engine can yield each table's rows in.
RowOrders ==
    [notes : Perms(NoteIds), tags : Perms(TagIds), note_tags : Perms(NoteTagIds)]

\* The limits a client can ask for, and the queries a client can send.
ClientLimits == {-1, 0, 1, 2, 3, 20000}

Queries == [since : OptTimes] \cup [since : OptTimes, limit : ClientLimits]

\* The limits of the pulling client's pages.
PageLimits == {1, 2, DefaultLimit}

\* The peer posts one change of any table.
PushChange ==
    /\ pager.pc = "idle"
    /\ request.pc = "idle"
    /\ \E s \in Scopes : \E change \in FeedWrites(s) :
          ApplyChanges(FeedPeer, <<change>>)

\* GET /sync/changes: the response to a query, kept with the query and the
\* limit in force.
GetChanges ==
    /\ request.pc = "idle"
    /\ \E query \in Queries, ord \in RowOrders :
          \E response \in {get_changes(DB, query, ord)} :
             request' = [pc |-> "answered", query |-> query,
                         limit |-> limit_in_force(query),
                         response |-> response]
    /\ UNCHANGED <<notes, tags, note_tags, sync_peers, conflicts, now, scope,
                   pager, env>>

\* The response is sent.
SendChanges ==
    /\ request.pc = "answered"
    /\ request' = NoRequest
    /\ UNCHANGED <<notes, tags, note_tags, sync_peers, conflicts, now, scope,
                   pager, env>>

\* The client starts a pull of the changes after its watermark.
StartPull ==
    /\ pager.pc = "idle"
    /\ \E from \in OptTimes, limit \in PageLimits :
          pager' = [pc |-> "paging", from |-> from, since |-> from,
                    limit |-> limit, got |-> NoPager.got]
    /\ UNCHANGED <<notes, tags, note_tags, sync_peers, conflicts, now, scope,
                   request, env>>

\* The client requests a page and, unless it is the last one, goes on from
\* its to_timestamp.
PullPage ==
    /\ pager.pc = "paging"
    /\ \E ord \in RowOrders :
          \E page \in {get_changes(DB, [since |-> pager.since,
                                        limit |-> pager.limit], ord)} :
             \E got \in {[s \in DOMAIN pager.got |->
                            pager.got[s] \cup
                            {page.changes[i].entity_id :
                                i \in {k \in DOMAIN page.changes :
                                          page.changes[k].entity_type = s}}]} :
                pager' = IF page.is_complete
                         THEN [pager EXCEPT !.pc = "done", !.got = got]
                         ELSE [pager EXCEPT !.since = page.to_timestamp,
                                            !.got = got]
    /\ UNCHANGED <<notes, tags, note_tags, sync_peers, conflicts, now, scope,
                   request, env>>

InitFeed ==
    /\ notes = [n \in NoteIds |-> NoRow]
    /\ tags = [t \in TagIds |-> NoRow]
    /\ note_tags = [p \in NoteTagIds |-> NoRow]
    /\ sync_peers = [p \in Peers |-> None]
    /\ conflicts = {}
    /\ now = 1
    /\ scope = "all"
    /\ request = NoRequest
    /\ pager = NoPager
    /\ remote = NoRemote
    /\ config = NoConfig
    /\ server = NoServer

NextFeed == PushChange \/ GetChanges \/ SendChanges

SpecFeed == InitFeed /\ [][NextFeed]_vars

NextPull == PushChange \/ StartPull \/ PullPage

SpecPull == InitFeed /\ [][NextPull]_vars

\* Two devices.  This device is the server of the round, the other device
\* (the peer FeedPeer of this device) runs the sync client; this device is
\* the peer ThisDevice of the other one.
ThisDevice == "this"

\* A device: its database and its clock.
Device(db, clock) == [pc |-> "device", db |-> db, now |-> clock]

\* The database of a device that has written nothing and synced with nobody.
EmptyDb(peers) ==
    [notes |-> [n \in NoteIds |-> NoRow],
     tags |-> [t \in TagIds |-> NoRow],
     note_tags |-> [p \in NoteTagIds |-> NoRow],
     sync_peers |-> [p \in peers |-> None],
     conflicts |-> {}]

\* Local write primitives: they stamp the device's clock.
create_note(db, note_id, content, clock) ==
    [db EXCEPT !.notes[note_id] =
        [exists |-> TRUE, created_at |-> clock, content |-> content,
         modified_at |-> None, deleted_at |-> None]]

update_note(db, note_id, content, clock) ==
    [db EXCEPT !.notes[note_id].content = content,
               !.notes[note_id].modified_at = clock]

delete_note(db, note_id, clock) ==
    [db EXCEPT !.notes[note_id].modified_at = clock,
               !.notes[note_id].deleted_at = clock]

\* The databases a local write can leave: a note is created if it is not
\* there, edited or deleted if it is there and not deleted.
LocalWrites(db, clock) ==
    {create_note(db, n, "v1", clock) : n \in {i \in NoteIds : ~db.notes[i].exists}}
    \cup {update_note(db, n, content, clock) :
            n \in {i \in NoteIds : db.notes[i].exists
                                   /\ db.notes[i].deleted_at = None},
            content \in Contents}
    \cup {delete_note(db, n, clock) :
            n \in {i \in NoteIds : db.notes[i].exists
                                   /\ db.notes[i].deleted_at = None}}

\* The storage order the feed reads the rows in during a round.
RoundOrder == CHOOSE ord \in RowOrders : TRUE

\* sync_with_peer: the client shakes hands, pulls the server's changes since
\* its own watermark and feeds them to its reconciler, pushes its changes
\* since the watermark the server declared, then records its own clock.
\* Every request uses the default limit, which no table here reaches.  Each
\* step is computed once, from the values of the steps before it.
push_to_peer(client, host, client_id, host_id, remote_last_sync, page, pulled) ==
    CHOOSE round \in
        {[client |-> [client EXCEPT
                         !.db = update_peer_sync_time(pulled.db, host_id,
                                                      client.now)],
          server |-> [host EXCEPT !.db = pushed.db],
          incoming |-> page.changes,
          outgoing |-> pushed.changes,
          pulled |-> pulled,
          pushed |-> pushed] :
         pushed \in
            {[changes |-> outgoing] @@
             apply_sync_changes(host.db, outgoing, client_id, host.now) :
                outgoing \in {get_changes_since(pulled.db, remote_last_sync,
                                                DefaultLimit, RoundOrder).changes}}}
        : TRUE

pull_from_peer(client, host, client_id, host_id, remote_last_sync) ==
    CHOOSE round \in
        {push_to_peer(client, host, client_id, host_id, remote_last_sync,
                      page[1], page[2]) :
         page \in
            {<<response, apply_sync_changes(client.db, response.changes,
                                            host_id, client.now)>> :
                response \in
                   {get_changes(host.db,
                                [since |-> get_peer_last_sync(client.db, host_id)],
                                RoundOrder)}}}
        : TRUE

sync_with_peer(client, host, client_id, host_id) ==
    pull_from_peer(client, host, client_id, host_id,
                   get_peer_last_sync(host.db, client_id))

\* A local write on this device.
WriteHere ==
    /\ \E db \in LocalWrites(DB, now) : Install(db)
    /\ UNCHANGED <<now, scope, request, pager, env>>

\* A local write on the other device.
WriteThere ==
    /\ \E db \in LocalWrites(remote.db, remote.now) :
          remote' = [remote EXCEPT !.db = db]
    /\ UNCHANGED <<notes, tags, note_tags, sync_peers, conflicts, now, scope,
                   request, pager, config, server>>

\* The other device's clock advances.
TickThere ==
    /\ remote.now < MaxTime
    /\ remote' = [remote EXCEPT !.now = @ + 1]
    /\ UNCHANGED <<notes, tags, note_tags, sync_peers, conflicts, now, scope,
                   request, pager, config, server>>

\* The other device runs a sync round with this device.
SyncRound ==
    /\ \E host \in {Device(DB, now)} :
       \E round \in {sync_with_peer(remote, host, FeedPeer, ThisDevice)} :
          /\ remote' = round.client
          /\ Install(round.server.db)
    /\ UNCHANGED <<now, scope, request, pager, config, server>>

InitDevices ==
    /\ notes = [n \in NoteIds |-> NoRow]
    /\ tags = [t \in TagIds |-> NoRow]
    /\ note_tags = [p \in NoteTagIds |-> NoRow]
    /\ sync_peers = [p \in Peers |-> None]
    /\ conflicts = {}
    /\ now = 1
    /\ scope = "note"
    /\ request = NoRequest
    /\ pager = NoPager
    /\ remote = Device(EmptyDb({ThisDevice}), 1)
    /\ config = NoConfig
    /\ server = NoServer

NextDevices == WriteHere \/ WriteThere \/ Tick \/ TickThere \/ SyncRound

SpecDevices == InitDevices /\ [][NextDevices]_vars

\* A peer posts no change: only its watermark moves.
ApplyNothing == \E peer \in Peers : ApplyChanges(peer, <<>>)

\* A peer posts one note change.
ApplyNoteChange ==
    \E peer \in Peers, change \in NoteChanges : ApplyChanges(peer, <<change>>)

InitNote == Init /\ scope = "note"

NextNote == ApplyNoteChange \/ ApplyNothing \/ Tick

SpecNote == InitNote /\ [][NextNote]_vars

\* A peer posts one tag change.
ApplyTagChange ==
    \E peer \in Peers, change \in TagChanges : ApplyChanges(peer, <<change>>)

InitTag == Init /\ scope = "tag"

NextTag == ApplyTagChange \/ ApplyNothing \/ Tick

SpecTag == InitTag /\ [][NextTag]_vars

\* A peer posts one note-tag change.
ApplyNoteTagChange ==
    \E peer \in Peers, change \in NoteTagChanges :
        ApplyChanges(peer, <<change>>)

InitNoteTag == Init /\ scope = "note_tag"

NextNoteTag == ApplyNoteTagChange \/ ApplyNothing \/ Tick

SpecNoteTag == InitNoteTag /\ [][NextNoteTag]_vars

----------------------------------------------------------------------------
\* The configuration file and the configuration manager

\* An Option<T>: no value, or one value.
NoValue == <<>>

Some(v) == <<v>>

is_some(opt) == opt # NoValue

\* The device ids generate_device_id can still hand out.
MaxIds == 3

\* generate_device_id: every call returns an id never seen before; the ids
\* are numbered in the order of their generation.
generate_device_id(minted) == minted + 1

\* get_default_device_name, on a machine whose host name cannot be read.
get_default_device_name == "Voice Device"

default_server_port == 8384

\* SyncConfig::default.
DefaultSyncConfig ==
    [enabled |-> FALSE, server_port |-> default_server_port, peers |-> <<>>]

\* config_dir.join("notes.db")
NotesDb == "voice/notes.db"

\* ConfigData::default, with the id it generates.  Of the fields of
\* ConfigData the model keeps those a setter or a getter of Config touches.
DefaultConfigData(minted) ==
    [database_file |-> "",
     default_interface |-> NoValue,
     device_id |-> generate_device_id(minted),
     device_name |-> get_default_device_name,
     sync |-> DefaultSyncConfig,
     server_certificate_fingerprint |-> NoValue]

\* JSON values: a value carries its JSON type; an object is a record of
\* values, an array a sequence of values.
JNull == <<"null">>

JString(s) == <<"string", s>>

JNumber(n) == <<"number", n>>

JBool(b) == <<"bool", b>>

JArray(items) == <<"array", items>>

JObject(members) == <<"object", members>>

JOption(opt) == IF is_some(opt) THEN JString(opt[1]) ELSE JNull

\* Serialize of PeerConfig and of ConfigData.
peer_to_json(peer) ==
    JObject([peer_id |-> JString(peer.peer_id),
             peer_name |-> JString(peer.peer_name),
             peer_url |-> JString(peer.peer_url),
             certificate_fingerprint |-> JOption(peer.certificate_fingerprint)])

to_json(data) ==
    JObject([database_file |-> JString(data.database_file),
             default_interface |-> JOption(data.default_interface),
             device_id |-> JNumber(data.device_id),
             device_name |-> JString(data.device_name),
             sync |-> JObject(
                 [enabled |-> JBool(data.sync.enabled),
                  server_port |-> JNumber(data.sync.server_port),
                  peers |-> JArray([i \in DOMAIN data.sync.peers |->
                                      peer_to_json(data.sync.peers[i])])]),
             server_certificate_fingerprint |->
                 JOption(data.server_certificate_fingerprint)])

\* Deserialize: a member that is present must have the type of its field; a
\* member that is absent takes the field's serde default, an Option takes
\* None.
Is(json, type) == json[1] = type

Has(object, key) == key \in DOMAIN object[2]

OkMember(object, key, type) == ~Has(object, key) \/ Is(object[2][key], type)

OkOption(object, key) ==
    \/ ~Has(object, key)
    \/ Is(object[2][key], "string")
    \/ Is(object[2][key], "null")

Member(object, key, default) ==
    IF Has(object, key) THEN object[2][key][2] ELSE default

OptionMember(object, key) ==
    IF Has(object, key) /\ Is(object[2][key], "string")
    THEN Some(object[2][key][2])
    ELSE NoValue

\* The members of PeerConfig have no default: all four are required, the
\* Option excepted.
ok_peer_json(json) ==
    /\ Is(json, "object")
    /\ \A key \in {"peer_id", "peer_name", "peer_url"} :
           Has(json, key) /\ Is(json[2][key], "string")
    /\ OkOption(json, "certificate_fingerprint")

peer_from_json(json) ==
    [peer_id |-> json[2].peer_id[2],
     peer_name |-> json[2].peer_name[2],
     peer_url |-> json[2].peer_url[2],
     certificate_fingerprint |-> OptionMember(json, "certificate_fingerprint")]

ok_sync_json(json) ==
    /\ Is(json, "object")
    /\ OkMember(json, "enabled", "bool")
    /\ OkMember(json, "server_port", "number")
    /\ OkMember(json, "peers", "array")
    /\ Has(json, "peers") =>
           \A i \in DOMAIN json[2].peers[2] : ok_peer_json(json[2].peers[2][i])

sync_from_json(json) ==
    [enabled |-> Member(json, "enabled", FALSE),
     server_port |-> Member(json, "server_port", default_server_port),
     peers |-> IF Has(json, "peers")
               THEN [i \in DOMAIN json[2].peers[2] |->
                        peer_from_json(json[2].peers[2][i])]
               ELSE <<>>]

ok_json(json) ==
    /\ Is(json, "object")
    /\ OkMember(json, "database_file", "string")
    /\ OkOption(json, "default_interface")
    /\ OkMember(json, "device_id", "number")
    /\ OkMember(json, "device_name", "string")
    /\ OkOption(json, "server_certificate_fingerprint")
    /\ Has(json, "sync") => ok_sync_json(json[2].sync)

\* serde_json::from_str::<ConfigData>: the data of a well-typed document;
\* a document that lacks device_id takes a newly generated one.
from_json(json, minted) ==
    [database_file |-> Member(json, "database_file", ""),
     default_interface |-> OptionMember(json, "default_interface"),
     device_id |-> Member(json, "device_id", generate_device_id(minted)),
     device_name |-> Member(json, "device_name", get_default_device_name),
     sync |-> IF Has(json, "sync") THEN sync_from_json(json[2].sync)
              ELSE DefaultSyncConfig,
     server_certificate_fingerprint |->
         OptionMember(json, "server_certificate_fingerprint")]

\* config.json: absent, or with a content; a content is a JSON document or
\* text that is none.
NoFile == [exists |-> FALSE]

FileOf(content) == [exists |-> TRUE, content |-> content]

NotJson == <<"text", "{">>

\* Whether fs::write succeeds is the disk's choice.
Disks == {"ok", "full"}

\* A save that reports success and writes nothing.
save_nothing(data, file, disk) ==
    IF disk = "ok"
    THEN [ok |-> TRUE, file |-> file]
    ELSE [ok |-> FALSE, error |-> "Io", file |-> file]

\* Config::save: serializes the data and writes the file; the answer is
\* the outcome and the file afterwards.
save(data, file, disk) ==
    IF disk = "ok"
    THEN [ok |-> TRUE, file |-> FileOf(to_json(data))]
    ELSE [ok |-> FALSE, error |-> "Io", file |-> file]

\* The data Config::new builds: the parsed file, or the defaults with the
\* notes.db of the directory when the file is absent or is no well-typed
\* document.
LoadedData(file, minted) ==
    IF file.exists /\ ok_json(file.content)
    THEN from_json(file.content, minted)
    ELSE [DefaultConfigData(minted) EXCEPT !.database_file = NotesDb]

\* Whether building the data generated a device id.
Generates(file) ==
    ~(file.exists /\ ok_json(file.content) /\ Has(file.content, "device_id"))

\* Config::new: loads the data and saves it when the file does not exist.
\* The answer is the outcome, the data of the new Config, the file and the
\* number of ids generated so far.
ConfigNew(file, minted, disk) ==
    LET data == LoadedData(file, minted)
        count == IF Generates(file) THEN minted + 1 ELSE minted
        saved == IF file.exists THEN [ok |-> TRUE, file |-> file]
                 ELSE save(data, file, disk)
    IN  [ok |-> saved.ok, data |-> data, file |-> saved.file, minted |-> count]

\* The answer of a method of Config: the outcome, the data of the Config
\* and the file afterwards.
Saved(data, file, disk) ==
    LET saved == save(data, file, disk)
    IN  IF saved.ok
        THEN [ok |-> TRUE, data |-> data, file |-> saved.file]
        ELSE [ok |-> FALSE, error |-> saved.error, data |-> data,
              file |-> saved.file]

Refused(error, data, file) ==
    [ok |-> FALSE, error |-> error, data |-> data, file |-> file]

set_device_name(data, file, name, disk) ==
    Saved([data EXCEPT !.device_name = name], file, disk)

set_sync_enabled(data, file, enabled, disk) ==
    Saved([data EXCEPT !.sync.enabled = enabled], file, disk)

set_sync_server_port(data, file, port, disk) ==
    Saved([data EXCEPT !.sync.server_port = port], file, disk)

\* Config::set
set(data, file, key, value, disk) ==
    CASE key = "database_file" ->
             Saved([data EXCEPT !.database_file = value], file, disk)
      [] key = "default_interface" ->
             Saved([data EXCEPT !.default_interface = Some(value)], file, disk)
      [] key = "device_name" ->
             Saved([data EXCEPT !.device_name = value], file, disk)
      [] key = "server_certificate_fingerprint" ->
             Saved([data EXCEPT !.server_certificate_fingerprint = Some(value)],
                   file, disk)
      [] OTHER -> Refused("Config", data, file)

\* Config::get
get(data, key) ==
    CASE key = "database_file" -> Some(data.database_file)
      [] key = "default_interface" -> data.default_interface
      [] key = "device_id" -> Some(data.device_id)
      [] key = "device_name" -> Some(data.device_name)
      [] key = "server_certificate_fingerprint" ->
             data.server_certificate_fingerprint
      [] OTHER -> NoValue

\* The places of a peer id in the peer list.
\* A search that finds nothing.
no_places(peers, peer_id) == {}

Places(peers, peer_id) == {i \in DOMAIN peers : peers[i].peer_id = peer_id}

\* iter().find(|p| p.peer_id == peer_id): the first place.
Find(peers, peer_id) ==
    CHOOSE i \in Places(peers, peer_id) :
        \A j \in Places(peers, peer_id) : i <= j

\* Config::get_peer
get_peer(data, peer_id) ==
    IF Places(data.sync.peers, peer_id) = {}
    THEN NoValue
    ELSE Some(data.sync.peers[Find(data.sync.peers, peer_id)])

\* A test of the length of a peer id alone.
peer_id_has_length(peer_id) == Len(peer_id) = DeviceIdLen

\* !(peer_id.len() != 32 || !peer_id.chars().all(|c| c.is_ascii_hexdigit()))
valid_peer_id(peer_id) ==
    /\ Len(peer_id) = DeviceIdLen
    /\ \A i \in DOMAIN peer_id : peer_id[i] \in HexDigits

\* An add_peer whose update replaces the fingerprint by the one given, none
\* included.
add_peer_replacing(data, file, peer_id, peer_name, peer_url, certificate_fingerprint, allow_update, disk) ==
    LET peers == data.sync.peers
    IN  IF ~valid_peer_id(peer_id)
        THEN Refused("Validation", data, file)
        ELSE IF Places(peers, peer_id) # {}
        THEN IF ~allow_update
             THEN Refused("Validation", data, file)
             ELSE LET i == Find(peers, peer_id)
                      existing ==
                          [peers[i] EXCEPT
                              !.peer_name = peer_name,
                              !.peer_url = peer_url,
                              !.certificate_fingerprint =
                                  certificate_fingerprint]
                  IN  Saved([data EXCEPT !.sync.peers[i] = existing],
                            file, disk)
        ELSE Saved([data EXCEPT !.sync.peers =
                       Append(peers,
                              [peer_id |-> peer_id,
                               peer_name |-> peer_name,
                               peer_url |-> peer_url,
                               certificate_fingerprint |->
                                   certificate_fingerprint])],
                   file, disk)

\* Config::add_peer
add_peer(data, file, peer_id, peer_name, peer_url, certificate_fingerprint, allow_update, disk) ==
    LET peers == data.sync.peers
    IN  IF ~valid_peer_id(peer_id)
        THEN Refused("Validation", data, file)
        ELSE IF Places(peers, peer_id) # {}
        THEN IF ~allow_update
             THEN Refused("Validation", data, file)
             ELSE LET i == Find(peers, peer_id)
                      existing ==
                          [peers[i] EXCEPT
                              !.peer_name = peer_name,
                              !.peer_url = peer_url,
                              !.certificate_fingerprint =
                                  IF is_some(certificate_fingerprint)
                                  THEN certificate_fingerprint
                                  ELSE @]
                  IN  Saved([data EXCEPT !.sync.peers[i] = existing],
                            file, disk)
        ELSE Saved([data EXCEPT !.sync.peers =
                       Append(peers,
                              [peer_id |-> peer_id,
                               peer_name |-> peer_name,
                               peer_url |-> peer_url,
                               certificate_fingerprint |->
                                   certificate_fingerprint])],
                   file, disk)

\* retain(|p| p.peer_id != peer_id)
RECURSIVE Retain(_, _)
Retain(peers, peer_id) ==
    IF peers = <<>> THEN <<>>
    ELSE IF Head(peers).peer_id # peer_id
    THEN <<Head(peers)>> \o Retain(Tail(peers), peer_id)
    ELSE Retain(Tail(peers), peer_id)

\* Config::remove_peer: the answer carries Ok's value.
remove_peer(data, file, peer_id, disk) ==
    LET kept == [data EXCEPT !.sync.peers = Retain(@, peer_id)]
        removed == Len(kept.sync.peers) < Len(data.sync.peers)
    IN  IF removed
        THEN LET saved == Saved(kept, file, disk)
             IN  IF saved.ok THEN saved @@ [value |-> TRUE]
                 ELSE saved
        ELSE [ok |-> TRUE, value |-> FALSE, data |-> kept, file |-> file]

\* An update_peer_certificate that keeps the fingerprint in memory alone.
update_peer_certificate_in_memory(data, file, peer_id, fingerprint, disk) ==
    IF Places(data.sync.peers, peer_id) # {}
    THEN LET i == Find(data.sync.peers, peer_id)
         IN  [ok |-> TRUE, value |-> TRUE,
              data |-> [data EXCEPT
                           !.sync.peers[i].certificate_fingerprint =
                               Some(fingerprint)],
              file |-> file]
    ELSE [ok |-> TRUE, value |-> FALSE, data |-> data, file |-> file]

\* Config::update_peer_certificate: the answer carries Ok's value.
update_peer_certificate(data, file, peer_id, fingerprint, disk) ==
    IF Places(data.sync.peers, peer_id) # {}
    THEN LET i == Find(data.sync.peers, peer_id)
             saved == Saved([data EXCEPT
                                !.sync.peers[i].certificate_fingerprint =
                                    Some(fingerprint)],
                            file, disk)
         IN  IF saved.ok THEN saved @@ [value |-> TRUE] ELSE saved
    ELSE [ok |-> TRUE, value |-> FALSE, data |-> data, file |-> file]

\* Certificate fingerprints (tls.rs).  A fingerprint is a string of
\* characters whose letters have a case.
Lower(ch) ==
    CASE ch = "A" -> "a" [] ch = "B" -> "b" [] ch = "C" -> "c"
      [] ch = "D" -> "d" [] ch = "E" -> "e" [] ch = "F" -> "f"
      [] ch = "S" -> "s" [] ch = "H" -> "h"
      [] OTHER -> ch

to_lowercase(s) == [i \in DOMAIN s |-> Lower(s[i])]

\* The writing of a fingerprint with capital hex digits, as other tools
\* print it.
Upper(ch) ==
    CASE ch = "a" -> "A" [] ch = "b" -> "B" [] ch = "c" -> "C"
      [] ch = "d" -> "D" [] ch = "e" -> "E" [] ch = "f" -> "F"
      [] OTHER -> ch

InCapitals(s) == [i \in DOMAIN s |-> Upper(s[i])]

\* format!("{:02x}", b)
LowerHexDigits ==
    <<"0", "1", "2", "3", "4", "5", "6", "7", "8", "9",
      "a", "b", "c", "d", "e", "f">>

TwoHex(b) == <<LowerHexDigits[(b \div 16) + 1], LowerHexDigits[(b % 16) + 1]>>

\* hex_parts.join(":")
RECURSIVE Join(_, _)
Join(parts, sep) ==
    IF parts = <<>> THEN <<>>
    ELSE IF Len(parts) = 1 THEN parts[1]
    ELSE parts[1] \o sep \o Join(Tail(parts), sep)

\* The digest of a DER encoding; the model keeps the first two bytes of a
\* digest, and two encodings whose digests differ.
Ders == {"derA", "derB"}

Sha256(der_data) == IF der_data = "derA" THEN <<171, 205>> ELSE <<171, 14>>

compute_fingerprint_from_der(der_data) ==
    <<"S", "H", "A", "2", "5", "6", ":">>
        \o Join([i \in DOMAIN Sha256(der_data) |-> TwoHex(Sha256(der_data)[i])],
                <<":">>)

\* The PEM data a peer can present: a certificate, or data without the
\* BEGIN marker, without the END marker, or with a body that is no base64.
Pems ==
    {[kind |-> "certificate", der |-> d] : d \in Ders}
        \cup {[kind |-> k] : k \in {"no begin", "no end", "no base64"}}

compute_fingerprint_from_pem(pem_data) ==
    CASE pem_data.kind = "no begin" ->
             [ok |-> FALSE, error |-> "No certificate found in PEM"]
      [] pem_data.kind = "no end" ->
             [ok |-> FALSE, error |-> "Invalid PEM format"]
      [] pem_data.kind = "no base64" ->
             [ok |-> FALSE, error |-> "Invalid base64 in PEM"]
      [] OTHER ->
             [ok |-> TRUE, value |-> compute_fingerprint_from_der(pem_data.der)]

\* A comparison that trusts every certificate.
any_fingerprint(actual, stored) == TRUE

\* The comparison of verify_peer.
same_fingerprint(actual, stored) == to_lowercase(actual) = to_lowercase(stored)

\* TOFUVerifier::verify_peer: (is_trusted, fingerprint, error_message).
verify_peer(data, peer_id, peer_cert_pem) ==
    LET computed == compute_fingerprint_from_pem(peer_cert_pem)
        peer == get_peer(data, peer_id)
    IN  IF ~computed.ok
        THEN [is_trusted |-> FALSE, fingerprint |-> <<>>,
              error_message |-> Some("Failed to compute fingerprint")]
        ELSE IF ~is_some(peer)
        THEN [is_trusted |-> FALSE, fingerprint |-> computed.value,
              error_message |-> Some("Unknown peer")]
        ELSE IF ~is_some(peer[1].certificate_fingerprint)
        THEN [is_trusted |-> TRUE, fingerprint |-> computed.value,
              error_message |-> NoValue]
        ELSE IF same_fingerprint(computed.value,
                                 peer[1].certificate_fingerprint[1])
        THEN [is_trusted |-> TRUE, fingerprint |-> computed.value,
              error_message |-> NoValue]
        ELSE [is_trusted |-> FALSE, fingerprint |-> computed.value,
              error_message |-> Some("Certificate fingerprint mismatch!")]

\* The state of the configuration: config.json, whether a Config is open
\* and its data, the number of device ids generated so far, and the last
\* call with its outcome.  Three fields record the history the properties
\* speak of: the device ids the Configs have shown since the file was last
\* edited by hand, the last successful
\* add_peer or remove_peer of each peer id, and the fingerprint the first
\* successful handshake of a peer captured.
ValidPeerIds == {DeviceIdOf(p) : p \in Peers}

NoCall ==
    [call |-> "none", peer_id |-> <<>>, ok |-> TRUE, value |-> FALSE,
     error |-> ""]

Call(name, peer_id, answer) ==
    [call |-> name, peer_id |-> peer_id, ok |-> answer.ok,
     value |-> IF "value" \in DOMAIN answer THEN answer.value ELSE FALSE,
     error |-> IF "error" \in DOMAIN answer THEN answer.error ELSE ""]

NoData == [device_id |-> 0]

FirstConfig ==
    [pc |-> "config",
     file |-> NoFile,
     open |-> FALSE,
     data |-> NoData,
     minted |-> 0,
     last |-> NoCall,
     shown |-> {},
     registry |-> [id \in ValidPeerIds |-> NoValue],
     captured |-> [id \in ValidPeerIds |-> NoValue]]

others == <<notes, tags, note_tags, sync_peers, conflicts, now, scope,
            request, pager, remote, server>>

\* The outcome of a method of the open Config: its data and the file.
Answer(name, peer_id, answer) ==
    [config EXCEPT !.data = answer.data,
                   !.file = answer.file,
                   !.last = Call(name, peer_id, answer)]

\* The disks of a start: the runs about the settings include a start on a
\* full disk.
DisksAtStart == IF scope = "settings" THEN Disks ELSE {"ok"}

\* The program starts: Config::new on the directory.  A failed start
\* leaves no Config.
Open ==
    /\ config.pc = "config"
    /\ ~config.open
    /\ Generates(config.file) => config.minted < MaxIds
    /\ \E disk \in DisksAtStart :
          \E new \in {ConfigNew(config.file, config.minted, disk)} :
              config' = [config EXCEPT
                            !.open = new.ok,
                            !.data = IF new.ok THEN new.data ELSE NoData,
                            !.file = new.file,
                            !.minted = new.minted,
                            !.last = Call("new", <<>>, new),
                            !.shown = IF new.ok
                                      THEN @ \cup {new.data.device_id}
                                      ELSE @]
    /\ UNCHANGED others

\* The program ends: the Config is dropped, the file stays.
Close ==
    /\ config.pc = "config"
    /\ config.open
    /\ config' = [config EXCEPT !.open = FALSE, !.data = NoData,
                                !.last = NoCall]
    /\ UNCHANGED others

\* Between two runs someone edits config.json by hand: the text is no JSON any more, or the
\* document loses its device_id.  The device ids shown before are history.
Edits(file) ==
    {FileOf(NotJson)}
        \cup IF ok_json(file.content)
             THEN {FileOf(JObject([key \in DOMAIN file.content[2] \ {"device_id"}
                                      |-> file.content[2][key]]))}
             ELSE {}

Damage ==
    /\ config.pc = "config"
    /\ scope = "settings"
    /\ ~config.open
    /\ config.file.exists
    /\ \E file \in Edits(config.file) :
          /\ file # config.file
          /\ config' = [config EXCEPT !.file = file, !.shown = {}]
    /\ UNCHANGED others

\* The values the setters are called with.  A run calls the typed setters,
\* or Config::set, or the methods of the peer list with names that vary, or
\* the methods of the peer list with fingerprints that vary.
DeviceNames == {"laptop"}

Ports == {9000}

Keys ==
    {"database_file", "default_interface", "device_name",
     "server_certificate_fingerprint", "window_geometry"}

Values == {"v"}

SetDeviceName ==
    /\ config.open /\ scope = "settings"
    /\ \E name \in DeviceNames, disk \in Disks :
          config' = Answer("set_device_name", <<>>,
                            set_device_name(config.data, config.file, name, disk))
    /\ UNCHANGED others

SetSyncEnabled ==
    /\ config.open /\ scope = "settings"
    /\ \E enabled \in BOOLEAN, disk \in Disks :
          config' = Answer("set_sync_enabled", <<>>,
                            set_sync_enabled(config.data, config.file, enabled,
                                             disk))
    /\ UNCHANGED others

SetSyncServerPort ==
    /\ config.open /\ scope = "settings"
    /\ \E port \in Ports, disk \in Disks :
          config' = Answer("set_sync_server_port", <<>>,
                            set_sync_server_port(config.data, config.file, port,
                                                 disk))
    /\ UNCHANGED others

Set ==
    /\ config.open /\ scope = "keys"
    /\ \E key \in Keys, value \in Values, disk \in Disks :
          config' = Answer("set", <<>>,
                            set(config.data, config.file, key, value, disk))
    /\ UNCHANGED others

\* The peers a user adds, and the fingerprints a user copies into the
\* configuration: the fingerprint of a certificate as this program writes
\* it, or in capitals.
PeerNames == {"desk", "phone"}

PeerUrlOf(peer_name) ==
    IF peer_name = "desk" THEN "https://desk:8384" ELSE "https://phone:8384"

UserFingerprints ==
    {compute_fingerprint_from_der("derA"),
     InCapitals(compute_fingerprint_from_der("derA"))}

\* The peer ids of the calls: the ids of the two peers, an id one character
\* short and an id with a character that is no hex digit.
PeerIds ==
    ValidPeerIds
        \cup {Repeat("a", DeviceIdLen - 1),
              [Repeat("a", DeviceIdLen) EXCEPT ![5] = "g"]}

\* The registry after a call that succeeded.
Registered(answer, peer_id, entry) ==
    IF answer.ok /\ peer_id \in ValidPeerIds
    THEN [config.registry EXCEPT ![peer_id] = entry]
    ELSE config.registry

AddPeerOf(ids, names, fingerprints, updates) ==
    /\ config.open
    /\ \E peer_id \in ids, peer_name \in names,
          certificate_fingerprint \in fingerprints, allow_update \in updates,
          disk \in Disks :
          \E peer_url \in {PeerUrlOf(peer_name)} :
          \E answer \in {add_peer(config.data, config.file, peer_id, peer_name,
                                  peer_url, certificate_fingerprint,
                                  allow_update, disk)} :
              config' = [Answer("add_peer", peer_id, answer) EXCEPT
                            !.registry =
                                Registered(answer, peer_id,
                                           Some([peer_name |-> peer_name,
                                                 peer_url |-> peer_url]))]
    /\ UNCHANGED others

AddPeer ==
    /\ scope = "peers"
    /\ AddPeerOf(PeerIds, PeerNames, {NoValue}, BOOLEAN)

AddPinnedPeer ==
    /\ scope = "pins"
    /\ AddPeerOf(ValidPeerIds, {"desk"},
                 {NoValue, Some(compute_fingerprint_from_der("derA"))},
                 BOOLEAN)

RemovePeer ==
    /\ config.open /\ scope \in {"peers", "pins"}
    /\ \E peer_id \in ValidPeerIds, disk \in Disks :
          \E answer \in {remove_peer(config.data, config.file, peer_id, disk)} :
              config' = [Answer("remove_peer", peer_id, answer) EXCEPT
                            !.registry = Registered(answer, peer_id, NoValue)]
    /\ UNCHANGED others

UpdatePeerCertificate ==
    /\ config.open /\ scope = "pins"
    /\ \E peer_id \in ValidPeerIds, disk \in Disks :
          \E fingerprint \in {compute_fingerprint_from_der("derA")} :
          config' = Answer("update_peer_certificate", peer_id,
                            update_peer_certificate(config.data, config.file,
                                                    peer_id, fingerprint, disk))
    /\ UNCHANGED others

ConfigScopes == {"settings", "keys", "peers", "pins"}

InitConfig ==
    /\ notes = [n \in NoteIds |-> NoRow]
    /\ tags = [t \in TagIds |-> NoRow]
    /\ note_tags = [p \in NoteTagIds |-> NoRow]
    /\ sync_peers = [p \in Peers |-> None]
    /\ conflicts = {}
    /\ now = 1
    /\ scope \in ConfigScopes
    /\ request = NoRequest
    /\ pager = NoPager
    /\ remote = NoRemote
    /\ config = FirstConfig
    /\ server = NoServer

NextConfig ==
    \/ Open \/ Close \/ Damage
    \/ SetDeviceName \/ SetSyncEnabled \/ SetSyncServerPort \/ Set
    \/ AddPeer \/ AddPinnedPeer \/ RemovePeer \/ UpdatePeerCertificate

SpecConfig == InitConfig /\ [][NextConfig]_vars

\* The handshake of the sync client with a peer, as far as trust goes: the
\* client verifies the certificate the peer presents; a certificate that
\* is not trusted ends the handshake with the verifier's message; the
\* fingerprint of a trusted certificate of a peer without a stored
\* fingerprint is stored in the peer's record, and the handshake succeeds
\* when that is saved.  The answer carries the verdict as its value.
tofu_handshake(data, file, peer_id, peer_cert_pem, disk) ==
    LET verdict == verify_peer(data, peer_id, peer_cert_pem)
        peer == get_peer(data, peer_id)
    IN  IF ~verdict.is_trusted
        THEN [ok |-> FALSE, value |-> FALSE, captured |-> FALSE,
              error |-> verdict.error_message[1], data |-> data, file |-> file]
        ELSE IF is_some(peer[1].certificate_fingerprint)
        THEN [ok |-> TRUE, value |-> TRUE, captured |-> FALSE,
              data |-> data, file |-> file]
        ELSE LET stored == update_peer_certificate(data, file, peer_id,
                                                   verdict.fingerprint, disk)
             IN  IF stored.ok
                 THEN [ok |-> TRUE, value |-> TRUE, captured |-> TRUE,
                       data |-> stored.data, file |-> stored.file]
                 ELSE [ok |-> FALSE, value |-> TRUE, captured |-> FALSE,
                       error |-> stored.error, data |-> stored.data,
                       file |-> stored.file]

Handshake ==
    /\ config.open /\ scope = "tofu"
    /\ \E peer_id \in ValidPeerIds, peer_cert_pem \in Pems, disk \in Disks :
          \E answer \in {tofu_handshake(config.data, config.file, peer_id,
                                   peer_cert_pem, disk)} :
              config' = [Answer("handshake", peer_id, answer) EXCEPT
                            !.captured[peer_id] =
                                IF answer.captured
                                THEN get_peer(answer.data, peer_id)[1]
                                         .certificate_fingerprint
                                ELSE @]
    /\ UNCHANGED others

\* A user adds a peer, with a fingerprint or without one.
AddTrustedPeer ==
    /\ scope = "tofu"
    /\ AddPeerOf(ValidPeerIds, {"desk"},
                 {NoValue} \cup {Some(f) : f \in UserFingerprints}, {FALSE})

InitTofu ==
    /\ notes = [n \in NoteIds |-> NoRow]
    /\ tags = [t \in TagIds |-> NoRow]
    /\ note_tags = [p \in NoteTagIds |-> NoRow]
    /\ sync_peers = [p \in Peers |-> None]
    /\ conflicts = {}
    /\ now = 1
    /\ scope = "tofu"
    /\ request = NoRequest
    /\ pager = NoPager
    /\ remote = NoRemote
    /\ config = FirstConfig
    /\ server = NoServer

NextTofu == Open \/ Close \/ AddTrustedPeer \/ Handshake

SpecTofu == InitTofu /\ [][NextTofu]_vars

----------------------------------------------------------------------------
\* The sync server's start and stop

\* The start_server calls of one process, and the connections a server
\* handles at a time.
MaxStarts == 3

MaxInflight == 3

\* The state of the process: the static SHUTDOWN_TX ("unset" while the
\* OnceLock is empty, "tx" while it holds Some(tx), "none" once the sender
\* was taken) and the start_server call whose sender it got; the place of
\* the running start_server call ("idle" when none runs) with its receiver
\* rx and the requests its handlers are working on; what the last call
\* returned.  Two fields record history: whether stop_server was called
\* while this server was running, and whether a handler finished after the
\* server had begun to shut down.
FirstServer ==
    [pc |-> "server",
     shutdown_tx |-> "unset",
     owner |-> 0,
     starts |-> 0,
     place |-> "idle",
     rx |-> "none",
     inflight |-> 0,
     returned |-> "none",
     stopped |-> FALSE,
     drained |-> FALSE]

beside_server == <<notes, tags, note_tags, sync_peers, conflicts, now, scope,
                   request, pager, remote, config>>

\* start_server up to the bind: the channel is created and offered to
\* SHUTDOWN_TX; get_or_init keeps the sender only while the OnceLock is
\* empty, otherwise the sender is dropped with the closure and the
\* receiver is closed.
start_server(s) ==
    [s EXCEPT !.starts = @ + 1,
              !.shutdown_tx = IF @ = "unset" THEN "tx" ELSE @,
              !.owner = IF s.shutdown_tx = "unset" THEN s.starts + 1 ELSE @,
              !.rx = IF s.shutdown_tx = "unset" THEN "pending" ELSE "closed",
              !.place = "binding",
              !.returned = "none",
              !.stopped = FALSE,
              !.drained = FALSE]

\* A stop_server that does nothing.
stop_server_idle(s) == s

\* stop_server: takes the sender out of SHUTDOWN_TX, if there is one, and
\* sends on it; the send reaches the receiver of the call that owns the
\* sender, if that call still runs.
stop_server(s) ==
    IF s.shutdown_tx = "tx"
    THEN [s EXCEPT !.shutdown_tx = "none",
                   !.rx = IF s.owner = s.starts /\ s.rx = "pending"
                          THEN "sent" ELSE @]
    ELSE s

\* rx.await.ok() has completed: a value was sent, or the sender is gone.
shutdown_signalled(s) == s.rx \in {"sent", "closed"}

StartServer ==
    /\ server.pc = "server"
    /\ server.place = "idle"
    /\ server.starts < MaxStarts
    /\ server' = start_server(server)
    /\ UNCHANGED beside_server

\* TcpListener::bind: the server listens, or start_server returns the
\* Network error and its receiver is dropped.
Bind ==
    /\ server.pc = "server"
    /\ server.place = "binding"
    /\ \/ server' = [server EXCEPT !.place = "serving"]
       \/ server' = [server EXCEPT !.place = "idle", !.rx = "none",
                                   !.returned = "Err"]
    /\ UNCHANGED beside_server

\* axum::serve accepts a connection and its handler starts on a request.
Accept ==
    /\ server.pc = "server"
    /\ server.place = "serving"
    /\ server.inflight < MaxInflight
    /\ server' = [server EXCEPT !.inflight = @ + 1]
    /\ UNCHANGED beside_server

\* A handler answers its request.
Finish ==
    /\ server.pc = "server"
    /\ server.inflight > 0
    /\ server' = [server EXCEPT !.inflight = @ - 1,
                                !.drained = @ \/ server.place = "draining"]
    /\ UNCHANGED beside_server

\* Someone calls stop_server: the Ctrl-C task, or stop_sync_server.
StopServer ==
    /\ server.pc = "server"
    /\ server' = [stop_server(server) EXCEPT
                     !.stopped = @ \/ server.place \in {"serving", "draining"}]
    /\ UNCHANGED beside_server

\* with_graceful_shutdown: the serve loop sees the signal and accepts no
\* more.
BeginShutdown ==
    /\ server.pc = "server"
    /\ server.place = "serving"
    /\ shutdown_signalled(server)
    /\ server' = [server EXCEPT !.place = "draining"]
    /\ UNCHANGED beside_server

\* The last handler has answered: axum::serve completes and start_server
\* returns Ok(()).
ReturnOk ==
    /\ server.pc = "server"
    /\ server.place = "draining"
    /\ server.inflight = 0
    /\ server' = [server EXCEPT !.place = "idle", !.rx = "none",
                                !.returned = "Ok"]
    /\ UNCHANGED beside_server

InitServer ==
    /\ notes = [n \in NoteIds |-> NoRow]
    /\ tags = [t \in TagIds |-> NoRow]
    /\ note_tags = [p \in NoteTagIds |-> NoRow]
    /\ sync_peers = [p \in Peers |-> None]
    /\ conflicts = {}
    /\ now = 1
    /\ scope = "all"
    /\ request = NoRequest
    /\ pager = NoPager
    /\ remote = NoRemote
    /\ config = NoConfig
    /\ server = FirstServer

NextServer ==
    \/ StartServer \/ Bind \/ Accept \/ Finish \/ StopServer
    \/ BeginShutdown \/ ReturnOk

SpecServer == InitServer /\ [][NextServer]_vars

\* The runtime polls every task that is ready: a signalled serve loop
\* shuts down, a handler at work answers, a drained server returns.
FairSpecServer ==
    /\ SpecServer
    /\ WF_vars(BeginShutdown)
    /\ WF_vars(Finish)
    /\ WF_vars(ReturnOk)

----------------------------------------------------------------------------
\* Two requests handled at once: the handlers share the database behind one
\* Arc<Mutex<Database>>, and every store access is made under its guard.

\* A dataset of the active rows only (WHERE deleted_at IS NULL).
get_full_dataset_active(db) ==
    [notes |-> {[id |-> n, created_at |-> db.notes[n].created_at,
                 content |-> db.notes[n].content,
                 modified_at |-> db.notes[n].modified_at,
                 deleted_at |-> db.notes[n].deleted_at] :
                    n \in {m \in DOMAIN db.notes :
                              /\ db.notes[m].exists
                              /\ db.notes[m].deleted_at = None}},
     tags |-> {[id |-> t, name |-> db.tags[t].name,
                parent_id |-> db.tags[t].parent_id,
                created_at |-> db.tags[t].created_at,
                modified_at |-> db.tags[t].modified_at] :
                    t \in {u \in DOMAIN db.tags : db.tags[u].exists}},
     note_tags |-> {[note_id |-> p[1], tag_id |-> p[2],
                     created_at |-> db.note_tags[p].created_at,
                     modified_at |-> db.note_tags[p].modified_at,
                     deleted_at |-> db.note_tags[p].deleted_at] :
                        p \in {q \in DOMAIN db.note_tags :
                                  /\ db.note_tags[q].exists
                                  /\ db.note_tags[q].deleted_at = None}}]

\* get_full_dataset: every row of the three tables, without a WHERE clause.
get_full_dataset(db) ==
    [notes |-> {[id |-> n, created_at |-> db.notes[n].created_at,
                 content |-> db.notes[n].content,
                 modified_at |-> db.notes[n].modified_at,
                 deleted_at |-> db.notes[n].deleted_at] :
                    n \in {m \in DOMAIN db.notes : db.notes[m].exists}},
     tags |-> {[id |-> t, name |-> db.tags[t].name,
                parent_id |-> db.tags[t].parent_id,
                created_at |-> db.tags[t].created_at,
                modified_at |-> db.tags[t].modified_at] :
                    t \in {u \in DOMAIN db.tags : db.tags[u].exists}},
     note_tags |-> {[note_id |-> p[1], tag_id |-> p[2],
                     created_at |-> db.note_tags[p].created_at,
                     modified_at |-> db.note_tags[p].modified_at,
                     deleted_at |-> db.note_tags[p].deleted_at] :
                        p \in {q \in DOMAIN db.note_tags :
                                  db.note_tags[q].exists}}]

\* A lock that never makes a thread wait.
lock_unguarded(holders) == TRUE

\* db.lock().unwrap(): the guard is handed out when no thread holds one.
lock(holders) == holders = {}

\* The two handler tasks of the runtime.
Tasks == {1, 2}

\* The storage order of the rows the feed queries yield in this behaviour.
HandlerOrder == CHOOSE ord \in RowOrders : TRUE

IdleTask ==
    [kind |-> "none", pc |-> "idle", peer |-> NoId, changes |-> <<>>,
     query |-> [since |-> None], req |-> NoRequest, response |-> <<>>]

\* The changes of the batches posted at once: n1 created, n1 edited at
\* instant 2, and the tag x created.
HandlerChanges ==
    {NoteChange("create", 1, "v1", None, None),
     NoteChange("update", 1, "v2", 2, None),
     TagChange("x", "create", "a", NoId, 1, None)}

ApplyRequests(peers) ==
    {[IdleTask EXCEPT !.kind = "apply", !.pc = "waiting", !.peer = peer,
                      !.changes = changes] :
        peer \in peers, changes \in BatchesOf(HandlerChanges)}

ChangesRequests ==
    {[IdleTask EXCEPT !.kind = "changes", !.pc = "waiting", !.query = query] :
        query \in {[since |-> None], [since |-> 1, limit |-> 1]}}

FullRequests == {[IdleTask EXCEPT !.kind = "full", !.pc = "waiting"]}

\* The databases the two requests can find: an empty one, and the one the
\* feed's peer left by a batch applied at instant 1.
StartDbs ==
    {EmptyDb(Peers),
     apply_sync_changes(EmptyDb(Peers),
                        <<NoteChange("create", 1, "v1", None, None),
                          TagChange("x", "create", "a", NoId, 1, None)>>,
                        FeedPeer, 1).db}

\* The handlers' state: the tasks that hold a guard of the database mutex,
\* the order the guards were handed out in, each task's request, and the
\* database the two requests found.
FirstHandlers ==
    [pc |-> "handlers", holders |-> {}, order |-> <<>>,
     task |-> [i \in Tasks |-> IdleTask], start |-> EmptyDb(Peers), served |-> FALSE]

\* A request handled alone, from the lock to the response.
serve(db, t, clock) ==
    CASE t.kind = "apply" ->
            LET out == apply_sync_changes(db, t.changes, t.peer, clock)
            IN  [db |-> out.db,
                 response |-> [applied |-> out.applied,
                               conflicts |-> out.conflicts,
                               errors |-> out.errors]]
      [] t.kind = "changes" ->
            [db |-> db, response |-> get_changes(db, t.query, HandlerOrder)]
      [] t.kind = "full" ->
            [db |-> db, response |-> get_full_dataset(db)]

\* The two requests handled one after the other, in the given order.
serial(s, first, second, clock) ==
    LET a == serve(s.start, s.task[first], clock)
        b == serve(a.db, s.task[second], clock)
    IN  [db |-> b.db,
         response |-> (first :> a.response) @@ (second :> b.response)]

\* Two requests arrive: a POST /sync/apply, and with it another one, a
\* GET /sync/changes or a GET /sync/full.
Arrive ==
    /\ server.pc = "handlers"
    /\ ~server.served
    /\ \A i \in Tasks : server.task[i].pc = "idle"
    /\ \E one \in ApplyRequests({FeedPeer}),
          other \in ApplyRequests(Peers) \cup ChangesRequests \cup FullRequests :
          server' = [server EXCEPT !.task = (1 :> one) @@ (2 :> other),
                                   !.start = DB]
    /\ UNCHANGED <<notes, tags, note_tags, sync_peers, conflicts, now, scope,
                   request, pager, remote, config>>

\* apply_sync_changes: db.lock().unwrap(), then the peer's watermark is read.
LockApply(i) ==
    /\ server.task[i].pc = "waiting"
    /\ server.task[i].kind = "apply"
    /\ lock(server.holders)
    /\ server' = [server EXCEPT
                    !.holders = @ \cup {i},
                    !.order = Append(@, i),
                    !.task[i].pc = "locked",
                    !.task[i].req = begin(DB, server.task[i].changes,
                                          server.task[i].peer)]
    /\ UNCHANGED <<notes, tags, note_tags, sync_peers, conflicts, now, scope,
                   request, pager, remote, config>>

\* One iteration of the loop, under the guard.
StepHandler(i) ==
    /\ server.task[i].pc = "locked"
    /\ server.task[i].kind = "apply"
    /\ server.task[i].req.rest # <<>>
    /\ LET out == step(server.task[i].req, DB, FALSE)
       IN  /\ server' = [server EXCEPT !.task[i].req = out.req]
           /\ Install(out.db)
    /\ UNCHANGED <<now, scope, request, pager, remote, config>>

\* The watermark is written, the totals are returned and the guard dropped.
FinishHandler(i) ==
    /\ server.task[i].pc = "locked"
    /\ server.task[i].kind = "apply"
    /\ server.task[i].req.rest = <<>>
    /\ LET out == finish(server.task[i].req, DB, now)
       IN  /\ server' = [server EXCEPT
                           !.holders = @ \ {i},
                           !.task[i].pc = "done",
                           !.task[i].req = out.req,
                           !.task[i].response = totals(out.req)]
           /\ Install(out.db)
    /\ UNCHANGED <<now, scope, request, pager, remote, config>>

\* get_changes_since and get_full_dataset: db.lock().unwrap()
LockRead(i) ==
    /\ server.task[i].pc = "waiting"
    /\ server.task[i].kind \in {"changes", "full"}
    /\ lock(server.holders)
    /\ server' = [server EXCEPT !.holders = @ \cup {i},
                                !.order = Append(@, i),
                                !.task[i].pc = "locked"]
    /\ UNCHANGED <<notes, tags, note_tags, sync_peers, conflicts, now, scope,
                   request, pager, remote, config>>

\* GET /sync/changes: the queries run under the guard, which is dropped when
\* get_changes_since returns.
ReadChanges(i) ==
    /\ server.task[i].pc = "locked"
    /\ server.task[i].kind = "changes"
    /\ server' = [server EXCEPT
                    !.holders = @ \ {i},
                    !.task[i].pc = "done",
                    !.task[i].response =
                        get_changes(DB, server.task[i].query, HandlerOrder)]
    /\ UNCHANGED <<notes, tags, note_tags, sync_peers, conflicts, now, scope,
                   request, pager, remote, config>>

\* GET /sync/full: the three tables are read under the guard.
ReadFull(i) ==
    /\ server.task[i].pc = "locked"
    /\ server.task[i].kind = "full"
    /\ server' = [server EXCEPT
                    !.holders = @ \ {i},
                    !.task[i].pc = "done",
                    !.task[i].response = get_full_dataset(DB)]
    /\ UNCHANGED <<notes, tags, note_tags, sync_peers, conflicts, now, scope,
                   request, pager, remote, config>>

\* Both responses are sent.
RespondBoth ==
    /\ server.pc = "handlers"
    /\ \A i \in Tasks : server.task[i].pc = "done"
    /\ server' = [server EXCEPT
                    !.task = [i \in Tasks |-> [@[i] EXCEPT !.pc = "sent"]],
                    !.served = TRUE]
    /\ UNCHANGED <<notes, tags, note_tags, sync_peers, conflicts, now, scope,
                   request, pager, remote, config>>

InitHandlers ==
    /\ \E db \in StartDbs :
          /\ notes = db.notes
          /\ tags = db.tags
          /\ note_tags = db.note_tags
          /\ sync_peers = db.sync_peers
          /\ conflicts = db.conflicts
    /\ now = 2
    /\ scope = "all"
    /\ request = NoRequest
    /\ pager = NoPager
    /\ remote = NoRemote
    /\ config = NoConfig
    /\ server = FirstHandlers

NextHandlers ==
    \/ Arrive
    \/ \E i \in Tasks : LockApply(i)
    \/ \E i \in Tasks : StepHandler(i)
    \/ \E i \in Tasks : FinishHandler(i)
    \/ \E i \in Tasks : LockRead(i)
    \/ \E i \in Tasks : ReadChanges(i)
    \/ \E i \in Tasks : ReadFull(i)
    \/ RespondBoth

SpecHandlers == InitHandlers /\ [][NextHandlers]_vars

----------------------------------------------------------------------------
\* The five routes of the router, each request handled whole

\* GET /sync/status
status == [status |-> "ok", protocol_version |-> "1.0"]

\* The changes of a table a device can post in one request: the feed's
\* writes, a delete of a tag, and a delete whose payload has no deleted_at.
RouteChanges(s) ==
    FeedWrites(s)
    \cup (IF s = "tag" THEN {TagChange("x", "delete", "a", NoId, 1, None)}
          ELSE IF s = "note" THEN {NoteChange("delete", 1, "v1", None, None)}
          ELSE {})

\* The device ids of the requests: the feed's peer and a malformed id.
RouteDeviceIds == {DeviceIdOf(FeedPeer), Repeat("a", DeviceIdLen - 1)}

\* The queries of GET /sync/changes in this behaviour.
RouteQueries == {[since |-> None], [since |-> 1, limit |-> 1]}

\* The response of a handler, kept until it is sent.
Responded(route, response) ==
    [pc |-> "answered", route |-> route, response |-> response]

PostHandshake ==
    /\ request.pc = "idle"
    /\ \E device_id \in RouteDeviceIds :
          request' = Responded("handshake", handshake(DB, device_id).body)
    /\ UNCHANGED <<notes, tags, note_tags, sync_peers, conflicts, now, scope,
                   pager, env>>

GetRouteChanges ==
    /\ request.pc = "idle"
    /\ \E query \in RouteQueries, ord \in RowOrders :
          request' = Responded("changes", get_changes(DB, query, ord))
    /\ UNCHANGED <<notes, tags, note_tags, sync_peers, conflicts, now, scope,
                   pager, env>>

PostRouteApply ==
    /\ request.pc = "idle"
    /\ \E device_id \in RouteDeviceIds, s \in Scopes :
       \E changes \in RequestsOf(RouteChanges(s)) :
          \E out \in {apply_changes(DB, device_id, changes, now)} :
             /\ Install(out.db)
             /\ request' = Responded("apply", out.body)
    /\ UNCHANGED <<now, scope, pager, env>>

GetFullSync ==
    /\ request.pc = "idle"
    /\ request' = Responded("full", get_full_dataset(DB))
    /\ UNCHANGED <<notes, tags, note_tags, sync_peers, conflicts, now, scope,
                   pager, env>>

GetStatus ==
    /\ request.pc = "idle"
    /\ request' = Responded("status", status)
    /\ UNCHANGED <<notes, tags, note_tags, sync_peers, conflicts, now, scope,
                   pager, env>>

\* Json(response).into_response()
SendResponse ==
    /\ request.pc = "answered"
    /\ request' = NoRequest
    /\ UNCHANGED <<notes, tags, note_tags, sync_peers, conflicts, now, scope,
                   pager, env>>

NextRoutes ==
    \/ PostHandshake
    \/ GetRouteChanges
    \/ PostRouteApply
    \/ GetFullSync
    \/ GetStatus
    \/ SendResponse

SpecRoutes == InitFeed /\ [][NextRoutes]_vars

----------------------------------------------------------------------------
\* Errors at the Python boundary

\* The variants of VoiceError, and the texts an error can carry.
Variants ==
    {"Validation", "Database", "DatabaseOperation", "Sync", "Network", "Tls",
     "Config", "Io", "Json", "Uuid", "NotFound", "Conflict", "Other"}

ErrorFields == {"tag_name", "content"}

ErrorMessages == {"too long", "refused"}

VoiceErrors ==
    [variant : Variants, field : ErrorFields, message : ErrorMessages]

\* #[error("...")]: the Display text of an error, as its pieces
to_string(err) ==
    CASE err.variant = "Validation" ->
            <<"Validation error in ", err.field, ": ", err.message>>
      [] err.variant = "Database" -> <<"Database error: ", err.message>>
      [] err.variant = "DatabaseOperation" ->
            <<"Database operation failed: ", err.message>>
      [] err.variant = "Sync" -> <<"Sync error: ", err.message>>
      [] err.variant = "Network" -> <<"Network error: ", err.message>>
      [] err.variant = "Tls" -> <<"TLS error: ", err.message>>
      [] err.variant = "Config" -> <<"Configuration error: ", err.message>>
      [] err.variant = "Io" -> <<"IO error: ", err.message>>
      [] err.variant = "Json" -> <<"JSON error: ", err.message>>
      [] err.variant = "Uuid" -> <<"UUID error: ", err.message>>
      [] err.variant = "NotFound" -> <<"Not found: ", err.message>>
      [] err.variant = "Conflict" -> <<"Conflict: ", err.message>>
      [] OTHER -> <<err.message>>

PyErr(type, text) == [type |-> type, text |-> text]

\* voice_error_to_pyerr of the voicecore Python module
voice_error_to_pyerr(err) ==
    CASE err.variant = "Validation" ->
            PyErr("voicecore.ValidationError", <<err.field, ": ", err.message>>)
      [] err.variant \in {"Database", "DatabaseOperation"} ->
            PyErr("voicecore.DatabaseError", to_string(err))
      [] err.variant \in {"Sync", "Network"} ->
            PyErr("voicecore.SyncError", to_string(err))
      [] OTHER -> PyErr("RuntimeError", to_string(err))

\* impl From<VoiceError> for PyErr
from_voice_error(err) ==
    CASE err.variant = "Validation" ->
            PyErr("voice_core.PyValidationError",
                  <<err.field, ":", err.message>>)
      [] err.variant = "Database" ->
            PyErr("voice_core.PyDatabaseError", <<err.message>>)
      [] err.variant = "DatabaseOperation" ->
            PyErr("voice_core.PyDatabaseError", <<err.message>>)
      [] err.variant = "Sync" -> PyErr("voice_core.PySyncError", <<err.message>>)
      [] err.variant = "Network" ->
            PyErr("voice_core.PySyncError", <<"Network: ", err.message>>)
      [] err.variant = "Tls" -> PyErr("voice_core.PyTlsError", <<err.message>>)
      [] err.variant = "Config" ->
            PyErr("voice_core.PyConfigError", <<err.message>>)
      [] err.variant = "Io" -> PyErr("RuntimeError", <<err.message>>)
      [] err.variant = "Json" -> PyErr("ValueError", <<err.message>>)
      [] err.variant = "Uuid" ->
            PyErr("voice_core.PyValidationError", <<"uuid:", err.message>>)
      [] err.variant = "NotFound" ->
            PyErr("ValueError", <<"Not found: ", err.message>>)
      [] err.variant = "Conflict" ->
            PyErr("RuntimeError", <<"Conflict: ", err.message>>)
      [] OTHER -> PyErr("RuntimeError", <<err.message>>)

\* The two places a VoiceError becomes a Python exception.
Boundaries == {"voice_error_to_pyerr", "From<VoiceError>"}

Raised(boundary, err) ==
    IF boundary = "voice_error_to_pyerr" THEN voice_error_to_pyerr(err)
    ELSE from_voice_error(err)

\* An operation fails and its error is raised in Python.
Raise ==
    /\ request.pc = "idle"
    /\ \E boundary \in Boundaries, err \in VoiceErrors :
          request' = [pc |-> "raised", boundary |-> boundary, err |-> err,
                      exception |-> Raised(boundary, err)]
    /\ UNCHANGED <<notes, tags, note_tags, sync_peers, conflicts, now, scope,
                   pager, env>>

\* The caller handles the exception.
Handle ==
    /\ request.pc = "raised"
    /\ request' = NoRequest
    /\ UNCHANGED <<notes, tags, note_tags, sync_peers, conflicts, now, scope,
                   pager, env>>

NextErrors == Raise \/ Handle

SpecErrors == InitFeed /\ [][NextErrors]_vars

----------------------------------------------------------------------------
\* validate_tag_name

MAX_TAG_NAME_LENGTH == 100

\* A name is a sequence of characters: the letter a, the space, the slash
\* and the letter e with acute accent (U+00E9, two bytes in UTF-8).
EAcute == "U+00E9"

\* char::len_utf8
len_utf8(ch) == IF ch = EAcute THEN 2 ELSE 1

\* char::is_whitespace
is_whitespace(ch) == ch = " "

\* str::trim: the name from its first character that is no whitespace to its
\* last one
trim(name) ==
    LET kept == {i \in DOMAIN name : ~is_whitespace(name[i])}
    IN  IF kept = {} THEN <<>>
        ELSE SubSeq(name, CHOOSE i \in kept : \A j \in kept : i <= j,
                          CHOOSE i \in kept : \A j \in kept : i >= j)

\* str::len: the length in bytes, the sum of the characters' widths
len(name) ==
    Cardinality({i \in DOMAIN name : len_utf8(name[i]) = 1})
    + 2 * Cardinality({i \in DOMAIN name : len_utf8(name[i]) = 2})

\* str::chars().count(): the length in characters
chars_count(name) == Len(name)

\* str::contains(char)
contains(name, ch) == \E i \in DOMAIN name : name[i] = ch

\* VoiceError::validation(field, message)
ValidationErr(field, message) ==
    [ok |-> FALSE, variant |-> "Validation", field |-> field,
     message |-> message]

OkUnit == [ok |-> TRUE]

validate_tag_name(name) ==
    LET stripped == trim(name)
    IN  IF stripped = <<>>
        THEN ValidationErr("tag_name", <<"cannot be empty or whitespace only">>)
        ELSE IF len(stripped) > MAX_TAG_NAME_LENGTH
        THEN ValidationErr("tag_name",
                           <<"cannot exceed ", MAX_TAG_NAME_LENGTH,
                             " characters (got ", len(stripped), ")">>)
        ELSE IF contains(stripped, "/")
        THEN ValidationErr("tag_name",
                           <<"cannot contain '/' character (reserved for paths)">>)
        ELSE OkUnit

\* The names given to validate_tag_name: spaces, then letters a, then
\* letters with accent, a slash or none, then spaces.
TagNameOf(lead, plain, accented, slash, trail) ==
    Repeat(" ", lead) \o Repeat("a", plain) \o Repeat(EAcute, accented)
    \o (IF slash THEN <<"/">> ELSE <<>>) \o Repeat(" ", trail)

TagNames ==
    {TagNameOf(lead, plain, accented, slash, trail) :
        lead \in {0, 1},
        plain \in {0, 1, MAX_TAG_NAME_LENGTH - 1, MAX_TAG_NAME_LENGTH,
                   MAX_TAG_NAME_LENGTH + 1},
        accented \in {0, 1, MAX_TAG_NAME_LENGTH \div 2,
                      (MAX_TAG_NAME_LENGTH \div 2) + 1},
        slash \in BOOLEAN,
        trail \in {0, 2}}

\* A caller validates a tag name.
ValidateTagName ==
    /\ request.pc = "idle"
    /\ \E name \in TagNames :
          request' = [pc |-> "validated", name |-> name,
                      result |-> validate_tag_name(name)]
    /\ UNCHANGED <<notes, tags, note_tags, sync_peers, conflicts, now, scope,
                   pager, env>>

\* The caller goes on.
TagNameDone ==
    /\ request.pc = "validated"
    /\ request' = NoRequest
    /\ UNCHANGED <<notes, tags, note_tags, sync_peers, conflicts, now, scope,
                   pager, env>>

NextTagName == ValidateTagName \/ TagNameDone

SpecTagName == InitFeed /\ [][NextTagName]_vars

----------------------------------------------------------------------------
\* A client that pages with any limit, while the server writes nothing

\* The limits of the paging client: negative, zero, one row, the default.
PagingLimits == {-1, 0, 1, DefaultLimit}

\* The peer posts one change of a note or a tag while no client is paging.
PushRow ==
    /\ pager.pc = "idle"
    /\ \E s \in {"note", "tag"} : \E change \in FeedChanges(s) :
          ApplyChanges(FeedPeer, <<change>>)

\* The client starts paging from the beginning or from instant 1.
StartPaging ==
    /\ pager.pc = "idle"
    /\ \E from \in {None, 1}, limit \in PagingLimits :
          pager' = [pc |-> "paging", from |-> from, since |-> from,
                    limit |-> limit, got |-> NoPager.got]
    /\ UNCHANGED <<notes, tags, note_tags, sync_peers, conflicts, now, scope,
                   request, env>>

NextPaging == PushRow \/ StartPaging \/ PullPage

SpecPaging == InitFeed /\ [][NextPaging]_vars

\* The client keeps requesting while the last page was not complete.
FairSpecPaging == SpecPaging /\ WF_vars(PullPage)

----------------------------------------------------------------------------
\* Notions the properties are stated in

\* The peer's watermark in the current database.
LastSync(peer) == get_peer_last_sync(DB, peer)

\* What the reconciler answers to one change of a peer, and the database it
\* leaves, in the current state.
Outcome(peer, change) == apply_change(DB, change, LastSync(peer))

\* Every change a client can post in this behaviour.
ClientChanges ==
    CASE scope = "note" -> NoteChanges
      [] scope = "tag" -> TagChanges
      [] scope = "note_tag" -> NoteTagChanges

\* incoming_time as the design states it: deleted_at of a delete,
\* modified_at of an update, created_at of a create.
StatedIncomingTime(change) ==
    CASE change.operation = "create" -> change.data.created_at
      [] change.operation = "update" -> change.data.modified_at
      [] change.operation = "delete" ->
            IF change.entity_type = "tag" THEN None ELSE change.data.deleted_at

\* Effective timestamp of a note or note-tag row, and of a tag row.
EffectiveTime(row) ==
    OrElse(OrElse(row.modified_at, row.deleted_at), row.created_at)

EffectiveTagTime(row) == OrElse(row.modified_at, row.created_at)

\* t is later than the watermark (no watermark: nothing is at or before it).
After(last_sync_at, t) ==
    last_sync_at = None \/ (t # None /\ t > last_sync_at)

\* The row changed since the watermark, or there is no watermark yet.
ChangedSince(last_sync_at, t) == last_sync_at = None \/ t > last_sync_at

\* The tables of entity rows.
Rows(db) == <<db.notes, db.tags, db.note_tags>>

\* The parent chain of tag t ends at a root within n steps.
RECURSIVE Rooted(_, _, _)
Rooted(tbl, t, n) ==
    IF t = NoId THEN TRUE
    ELSE IF ~tbl[t].exists THEN TRUE
    ELSE IF n = 0 THEN FALSE
    ELSE Rooted(tbl, tbl[t].parent_id, n - 1)

TagForest(tbl) == \A t \in TagIds : Rooted(tbl, t, Cardinality(TagIds))

----------------------------------------------------------------------------
\* The timestamps a change carries.
Stamps(change) ==
    {change.data.created_at, change.data.modified_at}
        \cup (IF change.entity_type = "tag" THEN {}
              ELSE {change.data.deleted_at})

\* C2 (as stated): with the peer's watermark set, every change whose
\* incoming_time is at or before the watermark is Skipped and nothing is
\* written, whether or not the local row exists.  The change is taken with
\* no timestamp later than the watermark, so that what it is answered does
\* not depend on which of its timestamps is read as incoming_time.
C2_SkippedAtOrBeforeWatermark ==
    \A peer \in Peers, change \in ClientChanges :
        LET last == LastSync(peer)
            t == StatedIncomingTime(change)
            out == Outcome(peer, change)
        IN  (/\ last # None
             /\ t # None
             /\ \A u \in Stamps(change) : u <= last)
                => (out.result = "Skipped" /\ out.db = DB)

\* C3 (as stated): a remote update later than the watermark, of a note that
\* also changed locally since the watermark (or with no watermark yet) and
\* whose local content differs, is answered Conflict and a note-content
\* conflict holding both contents is recorded.
C3_ContentConflict ==
    \A peer \in Peers, change \in NoteChanges :
        LET last == LastSync(peer)
            local == get_note_raw(DB, change.entity_id)
            out == Outcome(peer, change)
        IN  (/\ scope = "note"
             /\ change.operation = "update"
             /\ change.data.deleted_at = None
             /\ After(last, change.data.modified_at)
             /\ local.exists
             /\ local.deleted_at = None
             /\ ChangedSince(last, EffectiveTime(local))
             /\ local.content # change.data.content)
                => (/\ out.result = "Conflict"
                    /\ \E c \in out.db.conflicts :
                          /\ c.kind = "note_content"
                          /\ c.entity_id = change.entity_id
                          /\ c.local = local.content
                          /\ c.remote = change.data.content)

\* C4 (as stated): a remote delete of a note that was modified locally since
\* the watermark is answered Conflict, a note-delete conflict is recorded
\* and the local note is not deleted.
C4_DeleteConflict ==
    \A peer \in Peers, change \in NoteChanges :
        LET last == LastSync(peer)
            local == get_note_raw(DB, change.entity_id)
            out == Outcome(peer, change)
        IN  (/\ scope = "note"
             /\ change.operation = "delete"
             /\ After(last, change.data.deleted_at)
             /\ local.exists
             /\ local.deleted_at = None
             /\ local.modified_at # None
             /\ ChangedSince(last, local.modified_at))
                => (/\ out.result = "Conflict"
                    /\ out.db.notes = DB.notes
                    /\ \E c \in out.db.conflicts :
                          c.kind = "note_delete" /\ c.entity_id = change.entity_id)

\* C5 (as stated): a remote change of a tag that exists locally and changed
\* locally since the watermark, and whose name differs from the local one,
\* is answered Conflict, a tag-rename conflict is recorded and the remote
\* name is not applied.
C5_RenameConflict ==
    \A peer \in Peers, change \in TagChanges :
        LET last == LastSync(peer)
            local == get_tag_raw(DB, change.entity_id)
            out == Outcome(peer, change)
        IN  (/\ scope = "tag"
             /\ change.operation = "update"
             /\ After(last, change.data.modified_at)
             /\ local.exists
             /\ ChangedSince(last, EffectiveTagTime(local))
             /\ local.name # change.data.name)
                => (/\ out.result = "Conflict"
                    /\ out.db.tags[change.entity_id].name = local.name
                    /\ \E c \in out.db.conflicts :
                          c.kind = "tag_rename" /\ c.entity_id = change.entity_id)

\* C6 (as stated): a remote change of a tag that exists locally and changed
\* locally since the watermark, and whose parent_id differs from the local
\* one, is answered Conflict, a tag-parent conflict is recorded and the
\* remote parent is not applied.
C6_ParentConflict ==
    \A peer \in Peers, change \in TagChanges :
        LET last == LastSync(peer)
            local == get_tag_raw(DB, change.entity_id)
            out == Outcome(peer, change)
        IN  (/\ scope = "tag"
             /\ change.operation = "update"
             /\ After(last, change.data.modified_at)
             /\ local.exists
             /\ ChangedSince(last, EffectiveTagTime(local))
             /\ local.parent_id # change.data.parent_id)
                => (/\ out.result = "Conflict"
                    /\ out.db.tags[change.entity_id].parent_id = local.parent_id
                    /\ \E c \in out.db.conflicts :
                          c.kind = "tag_parent" /\ c.entity_id = change.entity_id)

\* C7 (as stated): the parent chain of every tag ends at a root, and a remote
\* tag change that would put a tag under itself or under one of its
\* descendants is answered Conflict and leaves the tags table unchanged.
C7_TagForest ==
    /\ TagForest(tags)
    /\ \A peer \in Peers, change \in TagChanges :
          LET out == Outcome(peer, change)
              moved == [tags EXCEPT ![change.entity_id] =
                           [exists |-> TRUE, name |-> change.data.name,
                            parent_id |-> change.data.parent_id,
                            created_at |-> change.data.created_at,
                            modified_at |-> change.data.modified_at]]
          IN  (scope = "tag" /\ change.operation \in {"create", "update"}
               /\ ~TagForest(moved))
                  => (out.result = "Conflict" /\ out.db.tags = tags)

----------------------------------------------------------------------------
\* Note-tag associations

\* The association a note-tag change addresses, as the store holds it.
LocalNoteTag(change) ==
    get_note_tag_raw(DB, change.entity_id[1], change.entity_id[2])

\* The association a note-tag change addresses, after the change.
NoteTagAfter(out, change) ==
    get_note_tag_raw(out.db, change.entity_id[1], change.entity_id[2])

\* The change is later than the peer's watermark, or there is no watermark.
PassesWatermark(peer, change) ==
    ~AtOrBeforeLastSync(LastSync(peer), note_tag_incoming_time(change))

\* The remote side is deleted: a delete, or an update that carries deleted_at.
RemoteDelete(change) ==
    \/ change.operation = "delete"
    \/ (change.operation = "update" /\ change.data.deleted_at # None)

\* The remote side is active: a create, or an update without deleted_at.
RemoteActive(change) ==
    \/ change.operation = "create"
    \/ (change.operation = "update" /\ change.data.deleted_at = None)

\* The well-formed note-tag changes
WellFormedNoteTagChanges == {c \in NoteTagChanges : Len(c.entity_id) = 2}

\* C8: for a note-tag change later than the watermark, with the local
\* association active and the remote side deleted: when the local row did not
\* change since the watermark the result is Applied and the row takes the
\* remote deleted_at; when it did change, or there is no watermark, the
\* result is Conflict and the row is left as it was, active.
C8_RemoteDeleteOfActive ==
    \A peer \in Peers, change \in WellFormedNoteTagChanges :
        LET last == LastSync(peer)
            local == LocalNoteTag(change)
            out == Outcome(peer, change)
        IN  (/\ scope = "note_tag"
             /\ PassesWatermark(peer, change)
             /\ RemoteDelete(change)
             /\ local.exists
             /\ local.deleted_at = None)
                => IF ChangedSince(last, EffectiveTime(local))
                   THEN /\ out.result = "Conflict"
                        /\ out.db = DB
                        /\ NoteTagAfter(out, change).deleted_at = None
                   ELSE /\ out.result = "Applied"
                        /\ NoteTagAfter(out, change).deleted_at
                              = change.data.deleted_at

\* Both cases of C8 happen in one state: the row was written before the
\* watermark of one peer and after (or without) the watermark of the other,
\* and a delete later than both watermarks is answered Applied to the first
\* peer and Conflict to the second.
C8_Witness ==
    /\ scope = "note_tag"
    /\ \E p, q \in Peers, change \in WellFormedNoteTagChanges :
          /\ RemoteDelete(change)
          /\ change.data.deleted_at # None
          /\ LocalNoteTag(change).exists
          /\ LocalNoteTag(change).deleted_at = None
          /\ LastSync(p) # None
          /\ PassesWatermark(p, change)
          /\ PassesWatermark(q, change)
          /\ Outcome(p, change).result = "Applied"
          /\ NoteTagAfter(Outcome(p, change), change).deleted_at # None
          /\ Outcome(q, change).result = "Conflict"

\* C9: for a note-tag change later than the watermark, with the local
\* association soft-deleted and the remote side active: the association is
\* active afterwards (deleted_at cleared), and the result is Conflict when
\* the local row changed since the watermark (or there is no watermark) and
\* Applied otherwise.
C9_Reactivation ==
    \A peer \in Peers, change \in WellFormedNoteTagChanges :
        LET last == LastSync(peer)
            local == LocalNoteTag(change)
            out == Outcome(peer, change)
        IN  (/\ scope = "note_tag"
             /\ PassesWatermark(peer, change)
             /\ RemoteActive(change)
             /\ local.exists
             /\ local.deleted_at # None)
                => /\ NoteTagAfter(out, change).exists
                   /\ NoteTagAfter(out, change).deleted_at = None
                   /\ out.result =
                        (IF ChangedSince(last, EffectiveTime(local))
                         THEN "Conflict" ELSE "Applied")

\* Both cases of C9 happen in one state: a soft-deleted association is
\* reactivated with Applied for a peer whose watermark is not before the
\* local deletion, and with Conflict for the other peer.
C9_Witness ==
    /\ scope = "note_tag"
    /\ \E p, q \in Peers, change \in WellFormedNoteTagChanges :
          /\ RemoteActive(change)
          /\ LocalNoteTag(change).exists
          /\ LocalNoteTag(change).deleted_at # None
          /\ LastSync(p) # None
          /\ PassesWatermark(p, change)
          /\ PassesWatermark(q, change)
          /\ Outcome(p, change).result = "Applied"
          /\ Outcome(q, change).result = "Conflict"
          /\ NoteTagAfter(Outcome(p, change), change).deleted_at = None
          /\ NoteTagAfter(Outcome(q, change), change).deleted_at = None

\* The local and the remote side are both active, or both deleted with the
\* same timestamps.
SameState(local, change) ==
    /\ local.exists
    /\ \/ (local.deleted_at = None /\ change.data.deleted_at = None)
       \/ (/\ local.deleted_at # None
           /\ change.data.deleted_at = local.deleted_at
           /\ change.data.modified_at = local.modified_at)

\* C10 (as stated): when the local association and the incoming change are
\* both active, or both deleted with the same timestamps, the result is
\* Skipped and the row is not written, whatever the operation (a create and
\* an update of an active association, an update and a delete of a deleted
\* one).
C10_SameStateSkipped ==
    \A peer \in Peers, change \in WellFormedNoteTagChanges :
        LET out == Outcome(peer, change)
        IN  (/\ scope = "note_tag"
             /\ SameState(LocalNoteTag(change), change)
             /\ (RemoteActive(change) <=> change.data.deleted_at = None))
                => (out.result = "Skipped" /\ out.db = DB)

\* C10 (amended): a create of an association that is active locally and a
\* delete of one that is deleted locally are Skipped and write nothing.  An
\* update whose deleted state is the local one is Skipped only at or before
\* the watermark; later than the watermark it is Applied, and the row takes
\* the remote modified_at and deleted_at and keeps its own created_at.
C10_SameStateByOperation ==
    \A peer \in Peers, change \in WellFormedNoteTagChanges :
        LET local == LocalNoteTag(change)
            out == Outcome(peer, change)
            same == (local.deleted_at = None) <=> (change.data.deleted_at = None)
        IN  (scope = "note_tag" /\ local.exists) =>
              /\ (change.operation = "create" /\ local.deleted_at = None)
                    => (out.result = "Skipped" /\ out.db = DB)
              /\ (change.operation = "delete" /\ local.deleted_at # None)
                    => (out.result = "Skipped" /\ out.db = DB)
              /\ (change.operation = "update" /\ same)
                    => IF PassesWatermark(peer, change)
                       THEN /\ out.result = "Applied"
                            /\ NoteTagAfter(out, change) =
                                 [local EXCEPT
                                    !.modified_at = change.data.modified_at,
                                    !.deleted_at = change.data.deleted_at]
                       ELSE out.result = "Skipped" /\ out.db = DB

\* An update of an active association that is active locally arrives later
\* than the peer's watermark: it is Applied and the row's modified_at changes.
C10_Witness ==
    /\ scope = "note_tag"
    /\ \E peer \in Peers, change \in WellFormedNoteTagChanges :
          /\ change.operation = "update"
          /\ change.data.deleted_at = None
          /\ LocalNoteTag(change).exists
          /\ LocalNoteTag(change).deleted_at = None
          /\ LastSync(peer) # None
          /\ PassesWatermark(peer, change)
          /\ Outcome(peer, change).result = "Applied"
          /\ Outcome(peer, change).db # DB
          /\ \E other \in WellFormedNoteTagChanges :
                /\ other.operation = "create"
                /\ Outcome(peer, other).result = "Skipped"

----------------------------------------------------------------------------
\* Re-delivery of a batch

\* The timestamps a batch carries.
BatchStamps(changes) == UNION {Stamps(changes[i]) : i \in DOMAIN changes}

\* The batch is delivered now, and a second time at the instant later with
\* no write in between.
FirstDelivery(changes) == apply_sync_changes(DB, changes, FeedPeer, now)

SecondDelivery(changes, later) ==
    apply_sync_changes(FirstDelivery(changes).db, changes, FeedPeer, later)

\* The second delivery skips every change and leaves every row as the first
\* delivery left it.
Idempotent(changes, later) ==
    LET first == FirstDelivery(changes)
        second == SecondDelivery(changes, later)
    IN  /\ \A i \in DOMAIN changes : second.results[i] = "Skipped"
        /\ second.applied = 0
        /\ second.conflicts = 0
        /\ Rows(second.db) = Rows(first.db)

----------------------------------------------------------------------------
\* Conflict records

\* C11 (as stated): whenever a batch counts a conflict for a change, an
\* unresolved conflict record of the matching kind for that entity is in the
\* store after the batch.
C11_ConflictRecorded ==
    \A peer \in Peers, change \in WellFormedNoteTagChanges :
        LET out == apply_sync_changes(DB, <<change>>, peer, now)
        IN  (scope = "note_tag" /\ out.conflicts = 1)
                => \E c \in out.db.conflicts :
                      /\ c.kind = "note_tag"
                      /\ c.entity_id = change.entity_id
                      /\ c.resolved_at = None

----------------------------------------------------------------------------
\* The batch, step by step

\* The changes of the request that failed: those of an unknown entity type
\* and those whose store call returned an error.
FailedChanges ==
    {i \in DOMAIN request.changes :
        \/ request.changes[i].entity_type \notin EntityTypes
        \/ i \in request.faults}

\* The changes of the request from the i-th on, without those whose store
\* call returned an error.
RECURSIVE Unfaulted(_)
Unfaulted(i) ==
    IF i > Len(request.changes) THEN <<>>
    ELSE (IF i \in request.faults THEN <<>> ELSE <<request.changes[i]>>)
            \o Unfaulted(i + 1)

\* C12: while the changes of a batch are processed the watermarks are as the
\* request found them and update_peer_sync_time has not been called; when
\* the totals are returned every change has been processed, the call has
\* been made exactly once, the peer's watermark is set and no other peer's
\* watermark has changed.  The batch may be empty or skipped throughout.
C12_WatermarkOnceAtEnd ==
    /\ request.pc = "loop" =>
          /\ request.writes = 0
          /\ sync_peers = request.before.sync_peers
    /\ request.pc = "done" =>
          /\ request.writes = 1
          /\ request.rest = <<>>
          /\ Len(request.results) = Len(request.changes)
          /\ sync_peers[request.peer] \in Times
          /\ sync_peers[request.peer] >= request.before.sync_peers[request.peer]
          /\ \A p \in Peers \ {request.peer} :
                sync_peers[p] = request.before.sync_peers[p]

\* A batch of changes that are all skipped returns its totals: the peer's
\* watermark has moved and the other peer's watermark is still set.
C12_Witness ==
    /\ request.pc = "done"
    /\ request.changes # <<>>
    /\ \A i \in DOMAIN request.results : request.results[i] = "Skipped"
    /\ request.writes = 1
    /\ sync_peers[request.peer] > request.before.sync_peers[request.peer]
    /\ request.before.sync_peers[request.peer] # None
    /\ \E p \in Peers \ {request.peer} : sync_peers[p] # None

\* C13: when the totals are returned every change of the batch has a result;
\* the result is an error exactly for the changes that failed, errors counts
\* them, and the database, applied and conflicts are those of the batch
\* without the changes whose store call failed.
C13_ErrorsDoNotAbort ==
    request.pc = "done" =>
        LET expected == apply_sync_changes(request.before, Unfaulted(1),
                                           request.peer,
                                           sync_peers[request.peer])
        IN  /\ Len(request.results) = Len(request.changes)
            /\ \A i \in DOMAIN request.changes :
                  request.results[i] = "Error" <=> i \in FailedChanges
            /\ totals(request).errors = Cardinality(FailedChanges)
            /\ totals(request).applied = expected.applied
            /\ totals(request).conflicts = expected.conflicts
            /\ DB = expected.db

\* The store fails the first change of a batch of two and the second change
\* is applied all the same.
C13_Witness ==
    /\ request.pc = "done"
    /\ Len(request.changes) = 2
    /\ 1 \in request.faults
    /\ request.results = <<"Error", "Applied">>
    /\ notes["n1"].exists
    /\ totals(request).errors = 1
    /\ totals(request).applied = 1

\* C14 (as stated): when the store fails a change of a batch, the batch
\* returns no totals and the peer's watermark stays as the request found it.
C14_StorageErrorAborts ==
    request.faults # {} =>
        /\ request.pc # "done"
        /\ sync_peers[request.peer] = request.before.sync_peers[request.peer]

----------------------------------------------------------------------------
\* Device ids

\* C15: a handshake or an apply request whose device_id is not exactly 32
\* hexadecimal characters is answered 400 with an error body; the apply
\* request applies none of its changes and updates no watermark.  A request
\* with a peer's device id is answered 200.
C15_InvalidDeviceIdRejected ==
    \A device_id \in DeviceIds, changes \in RequestsOf(FeedChanges(scope)) :
        LET wellformed ==
                /\ Len(device_id) = 32
                /\ \A i \in DOMAIN device_id : device_id[i] \in HexDigits
            applied == apply_changes(DB, device_id, changes, now)
            shaken == handshake(DB, device_id)
        IN  IF wellformed
            THEN applied.status = 200 /\ shaken.status = 200
            ELSE /\ applied.status = 400
                 /\ "error" \in DOMAIN applied.body
                 /\ applied.db = DB
                 /\ shaken.status = 400
                 /\ "error" \in DOMAIN shaken.body
                 /\ shaken.db = DB

\* A peer has a watermark, and a change that this peer's id would get applied
\* is posted with an id that has a character that is no hex digit: 400, and
\* the database is as it was.
C15_Witness ==
    \E device_id \in DeviceIds, changes \in RequestsOf(FeedChanges(scope)) :
        /\ Len(device_id) = 32
        /\ \E i \in DOMAIN device_id : device_id[i] \notin HexDigits
        /\ LastSync(FeedPeer) # None
        /\ apply_changes(DB, DeviceIdOf(FeedPeer), changes, now).body.applied = 1
        /\ apply_changes(DB, device_id, changes, now).status = 400
        /\ apply_changes(DB, device_id, changes, now).db = DB
        /\ handshake(DB, device_id).status = 400

\* The changes are in ascending order of their timestamps.
Ascending(changes) ==
    \A i \in DOMAIN changes, j \in DOMAIN changes :
        i < j => changes[i].timestamp <= changes[j].timestamp

\* A query has been answered.
Answered == request.pc = "answered"

\* C16: a /sync/changes response holds at most limit changes over the three
\* tables together, limit being min(client_limit ?? 1000, 10000); no response
\* holds more changes than its limit, a zero or negative limit included (at
\* most none).
C16_AtMostLimit ==
    Answered =>
        /\ request.limit =
               Min(IF "limit" \in DOMAIN request.query
                   THEN request.query.limit ELSE 1000, 10000)
        /\ Len(request.response.changes) <= Max(request.limit, 0)

\* What does hold of C16: a response holds at most limit changes when the
\* limit is not negative.
C16_AtMostLimitIfNotNegative ==
    (Answered /\ request.limit >= 0) =>
        Len(request.response.changes) <= request.limit

\* C17: every change get_changes_since returns for a given since has a
\* timestamp (modified_at, else deleted_at, else created_at; for a tag
\* modified_at, else created_at) strictly greater than since.
C17_AllAfterSince ==
    (Answered /\ request.query.since # None) =>
        \A i \in DOMAIN request.response.changes :
            LET change == request.response.changes[i]
            IN  /\ change.timestamp > request.query.since
                /\ change.timestamp =
                       IF change.entity_type = "tag"
                       THEN EffectiveTagTime(change.data)
                       ELSE EffectiveTime(change.data)

\* What does hold of C17: the note and tag changes returned are after since.
C17_NotesAndTagsAfterSince ==
    (Answered /\ request.query.since # None) =>
        \A i \in DOMAIN request.response.changes :
            LET change == request.response.changes[i]
            IN  change.entity_type # "note_tag" =>
                    change.timestamp > request.query.since

\* C18: the changes of one get_changes_since call are in ascending order of
\* their timestamps over the whole list, and the latest timestamp returned is
\* the greatest timestamp of the changes.
C18_AscendingWholeList ==
    Answered =>
        LET changes == request.response.changes
            latest == request.response.to_timestamp
        IN  /\ Ascending(changes)
            /\ \A i \in DOMAIN changes : changes[i].timestamp <= latest
            /\ changes # <<>> =>
                   \E i \in DOMAIN changes : changes[i].timestamp = latest

\* What does hold of C18: the latest timestamp is the greatest one returned.
C18_LatestIsMax ==
    Answered =>
        LET changes == request.response.changes
            latest == request.response.to_timestamp
        IN  /\ \A i \in DOMAIN changes : changes[i].timestamp <= latest
            /\ changes # <<>> =>
                   \E i \in DOMAIN changes : changes[i].timestamp = latest

\* C19: a /sync/changes response is not complete when it holds as many
\* changes as the limit in force, and complete when it holds fewer.
C19_CompleteIffFewer ==
    Answered =>
        /\ Len(request.response.changes) = request.limit =>
               ~request.response.is_complete
        /\ Len(request.response.changes) < request.limit =>
               request.response.is_complete

\* A query with limit 2 was answered with two changes and is not complete;
\* the same query with limit 3 gets the two changes and is complete.
C19_Witness ==
    /\ Answered
    /\ request.limit = 2
    /\ Len(request.response.changes) = 2
    /\ ~request.response.is_complete
    /\ \E ord \in RowOrders :
          LET short == get_changes(DB, [since |-> request.query.since,
                                        limit |-> 3], ord)
          IN  /\ short.changes = request.response.changes
              /\ short.is_complete

\* The rows of each table whose effective timestamp is after since: every
\* row if there is no since.
ChangedAfter(since) ==
    [note |-> {n \in NoteIds :
                  notes[n].exists /\ After(since, EffectiveTime(notes[n]))},
     tag |-> {t \in TagIds :
                  tags[t].exists /\ After(since, EffectiveTagTime(tags[t]))},
     note_tag |-> {p \in NoteTagIds :
                  /\ note_tags[p].exists
                  /\ After(since, EffectiveTime(note_tags[p]))}]

\* C20: a client that pages through /sync/changes with since = to_timestamp
\* until is_complete, while nothing is written, has received every note, tag
\* and note-tag change whose effective timestamp is after the since it
\* started from.
C20_PagingSkipsNothing ==
    pager.pc = "done" =>
        \A s \in Scopes : ChangedAfter(pager.from)[s] \subseteq pager.got[s]

\* The rows one response without a page limit holds for since.
InOnePage(since) ==
    LET page == get_changes(DB, [since |-> since, limit |-> MaxLimit],
                            CHOOSE ord \in RowOrders : TRUE)
    IN  [s \in Scopes |->
            {page.changes[i].entity_id :
                i \in {k \in DOMAIN page.changes :
                          page.changes[k].entity_type = s}}]

\* Does not hold either: the pages together hold every change that one
\* response without a page limit holds.
C20_PagingSkipsNothingOfOnePage ==
    pager.pc = "done" =>
        \A s \in Scopes : InOnePage(pager.from)[s] \subseteq pager.got[s]

----------------------------------------------------------------------------
\* Push in pages

\* The changes pushed in one request.
PushedAtOnce(changes) == apply_sync_changes(DB, changes, FeedPeer, now)

\* The changes pushed in two consecutive requests: the first k changes now,
\* the others at the instant later.
PushedInPages(changes, k, later) ==
    LET first == apply_sync_changes(DB, SubSeq(changes, 1, k), FeedPeer, now)
        second == apply_sync_changes(first.db,
                                     SubSeq(changes, k + 1, Len(changes)),
                                     FeedPeer, later)
    IN  [db |-> second.db,
         applied |-> first.applied + second.applied,
         conflicts |-> first.conflicts + second.conflicts]

\* C21: a list of changes pushed to /sync/apply in consecutive pages leaves
\* the same rows and conflict records, and sums to the same applied and
\* conflicts totals, as the same list pushed in a single request.
C21_PagesAsOneRequest ==
    \A changes \in BatchesOf(FeedChanges(scope)), later \in now..MaxTime :
        \A k \in 1..(Len(changes) - 1) :
            LET once == PushedAtOnce(changes)
                paged == PushedInPages(changes, k, later)
            IN  /\ Rows(paged.db) = Rows(once.db)
                /\ paged.db.conflicts = once.db.conflicts
                /\ paged.applied = once.applied
                /\ paged.conflicts = once.conflicts

----------------------------------------------------------------------------
\* Two devices

\* This device, as one value.
Here == Device(DB, now)

\* The next sync round of the two devices, and the round after it, with no
\* write in between.
NextRound == sync_with_peer(remote, Here, FeedPeer, ThisDevice)

RoundAfter(round) ==
    sync_with_peer(round.client, round.server, FeedPeer, ThisDevice)

\* A reconciler of the round reported a conflict, or a conflict record is
\* in a store after it.
ConflictIn(round) ==
    \/ round.pulled.conflicts > 0
    \/ round.pushed.conflicts > 0
    \/ round.server.db.conflicts # {}
    \/ round.client.db.conflicts # {}

\* C22: every write made on a device is, after a later sync round without
\* transport failure and without further writes, in the other device's store
\* or recorded there as a conflict, whatever the two clocks show: after two
\* rounds every note the devices hold is the same row on both, unless a
\* conflict was reported or recorded.
C22_Converge ==
    remote.pc = "device" =>
        \E first \in {NextRound} : \E second \in {RoundAfter(first)} :
            \/ ConflictIn(first)
            \/ ConflictIn(second)
            \/ second.server.db.notes = second.client.db.notes

\* Does not hold either: a note created on the other device, which this
\* device never held, is in this device's store after two rounds.
C22_NewNoteDelivered ==
    remote.pc = "device" =>
        \E first \in {NextRound} : \E second \in {RoundAfter(first)} :
            \A n \in NoteIds :
                (remote.db.notes[n].exists /\ ~notes[n].exists)
                    => second.server.db.notes[n] = remote.db.notes[n]

\* The second of two rounds in succession applies nothing on either side
\* and leaves the conflict records as the first round left them.
SecondRoundIdle(first, second) ==
    /\ second.pulled.applied = 0
    /\ second.pushed.applied = 0
    /\ second.client.db.conflicts = first.client.db.conflicts
    /\ second.server.db.conflicts = first.server.db.conflicts

\* C23 (as stated): sync_with_peer run twice in succession, with no write on
\* either side in between, applies no change on either side the second time
\* and creates no conflict record.
C23_SyncTwice ==
    remote.pc = "device" =>
        \E first \in {NextRound} : \E second \in {RoundAfter(first)} :
            SecondRoundIdle(first, second)

\* The timestamps the notes of a database carry.
NoteStamps(db) ==
    UNION {{db.notes[n].created_at, db.notes[n].modified_at,
            db.notes[n].deleted_at} \ {None} :
              n \in {i \in NoteIds : db.notes[i].exists}}

\* C23 (amended): the same holds when no row of either device carries a
\* timestamp later than the other device's clock.
C23_SyncTwiceOfPastWrites ==
    remote.pc = "device" =>
        \E first \in {NextRound} : \E second \in {RoundAfter(first)} :
            (/\ \A u \in NoteStamps(DB) : u <= remote.now
             /\ \A u \in NoteStamps(remote.db) : u <= now)
                => SecondRoundIdle(first, second)

\* Both devices hold the note, written at or before both clocks, in different
\* states; the first round applies a change, the second applies none.
C23_Witness ==
    /\ remote.pc = "device"
    /\ \A n \in NoteIds : notes[n].exists /\ remote.db.notes[n].exists
    /\ notes # remote.db.notes
    /\ \A u \in NoteStamps(DB) : u <= remote.now
    /\ \A u \in NoteStamps(remote.db) : u <= now
    /\ NextRound.pulled.applied + NextRound.pushed.applied >= 1
    /\ SecondRoundIdle(NextRound, RoundAfter(NextRound))


----------------------------------------------------------------------------
\* Trust on first use

\* The open Config holds a fingerprint for the peer, and that fingerprint.
HasPin(peer_id) ==
    /\ config.open
    /\ is_some(get_peer(config.data, peer_id))
    /\ is_some(get_peer(config.data, peer_id)[1].certificate_fingerprint)

Pin(data, peer_id) == get_peer(data, peer_id)[1].certificate_fingerprint[1]

\* The certificates a peer can present.
Certificates == {pem \in Pems : pem.kind = "certificate"}

FingerprintOf(pem) == compute_fingerprint_from_pem(pem).value

\* What the verifier and the handshake do with a certificate presented for
\* a peer with the stored fingerprint F: the certificate is rejected with a
\* message when its fingerprint differs from F and trusted otherwise, and
\* F stays the stored fingerprint in the Config and in the file.
PinVerdict(peer_id, pem, differs) ==
    \E verdict \in {verify_peer(config.data, peer_id, pem)} :
        /\ differs => ~verdict.is_trusted /\ is_some(verdict.error_message)
        /\ ~differs => verdict.is_trusted /\ ~is_some(verdict.error_message)
        /\ \A disk \in Disks :
               \E after \in {tofu_handshake(config.data, config.file, peer_id,
                                            pem, disk)} :
                   /\ Pin(after.data, peer_id) = Pin(config.data, peer_id)
                   /\ after.file = config.file

\* C24 (as stated): for a peer with a stored fingerprint F, a certificate
\* whose fingerprint differs from F is rejected with an error message, a
\* certificate whose fingerprint equals F is trusted, and after the
\* verification the stored fingerprint is still F.
C24_PinnedFingerprint ==
    \A peer_id \in ValidPeerIds, pem \in Certificates :
        HasPin(peer_id) =>
            PinVerdict(peer_id, pem,
                       FingerprintOf(pem) # Pin(config.data, peer_id))

\* C24 (amended): the same, with fingerprints compared without regard to
\* the case of their letters: a certificate is rejected when its
\* fingerprint differs from F in more than the case of letters, and is
\* trusted otherwise.
C24_PinnedFingerprintIgnoringCase ==
    \A peer_id \in ValidPeerIds, pem \in Certificates :
        HasPin(peer_id) =>
            PinVerdict(peer_id, pem,
                       to_lowercase(FingerprintOf(pem))
                           # to_lowercase(Pin(config.data, peer_id)))

\* A handshake has just been refused for a mismatch with the stored
\* fingerprint, which is still stored.
C24_Witness ==
    /\ config.last.call = "handshake"
    /\ ~config.last.ok
    /\ config.last.error = "Certificate fingerprint mismatch!"
    /\ HasPin(config.last.peer_id)

\* The data of the Config the program works with next: the open one, or
\* the one the next start loads.
ConfigInUse ==
    IF config.open THEN config.data
    ELSE LoadedData(config.file, config.minted)

\* The peer's record in the data holds the fingerprint, and the verifier
\* rejects with a message every certificate with another fingerprint.
PinnedIn(data, peer_id, fingerprint) ==
    /\ is_some(get_peer(data, peer_id))
    /\ get_peer(data, peer_id)[1].certificate_fingerprint = Some(fingerprint)
    /\ \A pem \in Certificates :
           FingerprintOf(pem) # fingerprint =>
               \E verdict \in {verify_peer(data, peer_id, pem)} :
                   ~verdict.is_trusted /\ is_some(verdict.error_message)

----------------------------------------------------------------------------
\* The configuration

\* C26: the device id is generated once: every Config constructed on the
\* directory shows the same device id, whatever Config::new calls and
\* setters came before, also when the stored file lacks device_id or
\* cannot be parsed (the Configs constructed since the file was last
\* edited by hand are compared).
C26_OneDeviceId == Cardinality(config.shown) <= 1

\* The data of a new Config constructed on the directory with the file.
Reloaded(file) == LoadedData(file, config.minted)

\* The fingerprints add_peer and update_peer_certificate are given.
GivenFingerprints == {NoValue} \cup {Some(f) : f \in UserFingerprints}

\* C27: after a setter of the open Config has returned Ok, a new Config
\* constructed on the same directory returns the value that was set; for
\* remove_peer and update_peer_certificate, when Ok carries true.
C27_SettersPersist ==
    config.open =>
        \A disk \in Disks :
            /\ \A name \in DeviceNames \cup {get_default_device_name} :
                   \E a \in {set_device_name(config.data, config.file, name,
                                             disk)} :
                       a.ok => Reloaded(a.file).device_name = name
            /\ \A enabled \in BOOLEAN :
                   \E a \in {set_sync_enabled(config.data, config.file, enabled,
                                              disk)} :
                       a.ok => Reloaded(a.file).sync.enabled = enabled
            /\ \A port \in Ports \cup {default_server_port} :
                   \E a \in {set_sync_server_port(config.data, config.file,
                                                  port, disk)} :
                       a.ok => Reloaded(a.file).sync.server_port = port
            /\ \A key \in Keys, value \in Values :
                   \E a \in {set(config.data, config.file, key, value, disk)} :
                       a.ok => get(Reloaded(a.file), key) = Some(value)
            /\ \A peer_id \in DeviceIds, peer_name \in PeerNames,
                  fingerprint \in GivenFingerprints, allow_update \in BOOLEAN :
                   \E a \in {add_peer(config.data, config.file, peer_id,
                                      peer_name, PeerUrlOf(peer_name),
                                      fingerprint, allow_update, disk)} :
                       a.ok =>
                           \E peer \in {get_peer(Reloaded(a.file), peer_id)} :
                               /\ is_some(peer)
                               /\ peer[1].peer_name = peer_name
                               /\ peer[1].peer_url = PeerUrlOf(peer_name)
                               /\ is_some(fingerprint) =>
                                      peer[1].certificate_fingerprint
                                          = fingerprint
            /\ \A peer_id \in DeviceIds :
                   \E a \in {remove_peer(config.data, config.file, peer_id,
                                         disk)} :
                       a.ok /\ a.value =>
                           ~is_some(get_peer(Reloaded(a.file), peer_id))
            /\ \A peer_id \in DeviceIds, fingerprint \in UserFingerprints :
                   \E a \in {update_peer_certificate(config.data, config.file,
                                                     peer_id, fingerprint,
                                                     disk)} :
                       a.ok /\ a.value =>
                           get_peer(Reloaded(a.file), peer_id)[1]
                               .certificate_fingerprint = Some(fingerprint)

\* A Config has just been constructed on a directory in which an earlier
\* Config set the device name, the sync switch and the port, and it shows
\* the three values.
C27_Witness ==
    /\ config.open
    /\ config.last.call = "new"
    /\ config.data.device_name = "laptop"
    /\ config.data.sync.enabled
    /\ config.data.sync.server_port = 9000

\* C28: add_peer with a peer_id that is not exactly 32 hex characters fails
\* with a Validation error and leaves the peer list unchanged, in memory
\* and in the file.
C28_InvalidPeerIdRefused ==
    config.open =>
        \A peer_id \in DeviceIds, peer_name \in PeerNames,
           fingerprint \in GivenFingerprints, allow_update \in BOOLEAN,
           disk \in Disks :
            ~(Len(peer_id) = DeviceIdLen
                  /\ \A i \in 1..Len(peer_id) : peer_id[i] \in HexDigits) =>
                \E a \in {add_peer(config.data, config.file, peer_id, peer_name,
                                   PeerUrlOf(peer_name), fingerprint,
                                   allow_update, disk)} :
                    /\ ~a.ok
                    /\ a.error = "Validation"
                    /\ a.data.sync.peers = config.data.sync.peers
                    /\ a.file = config.file

\* add_peer has just refused a peer id with a character that is no hex
\* digit, on a Config that holds a peer.
C28_Witness ==
    /\ config.open
    /\ config.last.call = "add_peer"
    /\ config.last.error = "Validation"
    /\ config.last.peer_id = [Repeat("a", DeviceIdLen) EXCEPT ![5] = "g"]
    /\ config.data.sync.peers # <<>>

\* The name and the URL of the peer's entry in the open Config, or none.
EntryOf(peer_id) ==
    IF is_some(get_peer(config.data, peer_id))
    THEN Some([peer_name |-> get_peer(config.data, peer_id)[1].peer_name,
               peer_url |-> get_peer(config.data, peer_id)[1].peer_url])
    ELSE NoValue

\* C29: the peer list behaves as a map keyed by peer_id: get_peer(id)
\* returns an entry exactly when the last successful call for that id was
\* an add_peer, and the entry has the name and URL of that call; remove_peer
\* returns true exactly when it removed an entry.
C29_PeerRegistry ==
    config.open =>
        /\ \A peer_id \in ValidPeerIds : EntryOf(peer_id) = config.registry[peer_id]
        /\ \A peer_id \in DeviceIds :
               \E a \in {remove_peer(config.data, config.file, peer_id, "ok")} :
                   a.value = (/\ is_some(get_peer(config.data, peer_id))
                              /\ ~is_some(get_peer(a.data, peer_id)))

----------------------------------------------------------------------------
\* The server's shutdown

\* C30: after stop_server is called while a server started by start_server
\* is running, the server stops accepting connections, the handlers at
\* work run to completion (the server returns only when none is left), and
\* start_server eventually returns Ok.
C30_GracefulShutdown ==
    /\ server.stopped ~> (server.place = "idle" /\ server.returned = "Ok")
    /\ [][server.place = "draining" => server'.inflight <= server.inflight]_vars
    /\ [][server.place # "idle" /\ server'.place = "idle"
              /\ server'.returned = "Ok" => server.inflight = 0]_vars

\* A server that was stopped while it ran has returned Ok, after a handler
\* finished its request during the shutdown.
C30_Witness ==
    /\ server.pc = "server"
    /\ server.stopped
    /\ server.drained
    /\ server.place = "idle"
    /\ server.returned = "Ok"

----------------------------------------------------------------------------
\* Concurrent requests

\* Both requests of the round are answered.
BothDone == \A i \in Tasks : server.task[i].pc = "done"

\* The responses and the database are those of the two requests handled one
\* after the other in the given order.
AsSerial(first, second) ==
    LET out == serial(server, first, second, now)
    IN  /\ out.db = DB
        /\ \A i \in Tasks : out.response[i] = server.task[i].response

\* C31: store accesses are serialized by one exclusive mutex: of two requests
\* handled at once, at most one holds the guard at any time, so a batch's
\* accesses from reading the watermark to writing it are not interleaved
\* with the other request's, and the responses and the database are those of
\* the two requests handled in some serial order.
C31_Serialized ==
    /\ Cardinality(server.holders) <= 1
    /\ \A i \in Tasks :
          (server.task[i].pc = "locked" /\ server.task[i].kind = "apply")
              => server.task[3 - i].pc # "locked"
    /\ BothDone => (AsSerial(1, 2) \/ AsSerial(2, 1))

\* Two batches of two changes each were applied at once, the second
\* request took the lock first, and the order is visible in the outcome.
C31_Witness ==
    /\ BothDone
    /\ \A i \in Tasks :
          server.task[i].kind = "apply" /\ Len(server.task[i].changes) = 2
    /\ server.order = <<2, 1>>
    /\ ~AsSerial(1, 2)

----------------------------------------------------------------------------
\* Rows are never removed

\* The ids present in each table of a database.
PresentIds(db) ==
    [notes |-> {n \in DOMAIN db.notes : db.notes[n].exists},
     tags |-> {t \in DOMAIN db.tags : db.tags[t].exists},
     note_tags |-> {p \in DOMAIN db.note_tags : db.note_tags[p].exists}]

\* The database after the step.
NextDB == [notes |-> notes', tags |-> tags', note_tags |-> note_tags',
           sync_peers |-> sync_peers', conflicts |-> conflicts']

\* A request leaves every id that was present in its table.
RowsKept ==
    /\ PresentIds(DB).notes \subseteq PresentIds(NextDB).notes
    /\ PresentIds(DB).tags \subseteq PresentIds(NextDB).tags
    /\ PresentIds(DB).note_tags \subseteq PresentIds(NextDB).note_tags

\* A delete change posted by the feed's peer leaves its row in the table,
\* and when it is applied to a note or an association the row carries the
\* payload's deleted_at.
DeleteIsSoft ==
    \A s \in Scopes :
    \A change \in {c \in RouteChanges(s) : c.operation = "delete"} :
        LET out == apply_change(DB, change, LastSync(FeedPeer))
            present == PresentIds(out.db)
        IN  /\ PresentIds(DB).notes \subseteq present.notes
            /\ PresentIds(DB).tags \subseteq present.tags
            /\ PresentIds(DB).note_tags \subseteq present.note_tags
            /\ (out.result = "Applied" /\ change.entity_type = "note")
                  => /\ change.entity_id \in present.notes
                     /\ out.db.notes[change.entity_id].deleted_at
                            = change.data.deleted_at
            /\ (out.result = "Applied" /\ change.entity_type = "note_tag")
                  => /\ change.entity_id \in present.note_tags
                     /\ out.db.note_tags[change.entity_id].deleted_at
                            = change.data.deleted_at

\* The dataset of /sync/full names every row present, the soft-deleted
\* ones with their deleted_at.
FullHasEveryRow ==
    LET data == get_full_dataset(DB)
    IN  /\ {r.id : r \in data.notes} = PresentIds(DB).notes
        /\ {r.id : r \in data.tags} = PresentIds(DB).tags
        /\ {<<r.note_id, r.tag_id>> : r \in data.note_tags}
              = PresentIds(DB).note_tags
        /\ \A r \in data.notes : r.deleted_at = notes[r.id].deleted_at
        /\ \A r \in data.note_tags :
              r.deleted_at = note_tags[<<r.note_id, r.tag_id>>].deleted_at

\* C32: no entity row is physically removed: every step of any sequence of
\* handshake, changes, apply, full and status requests keeps every note, tag
\* and note-tag id present; a remote delete leaves the row and sets its
\* deleted_at; /sync/full returns the soft-deleted rows too.
C32_NoRowRemoved ==
    /\ [][RowsKept]_vars
    /\ [](DeleteIsSoft /\ FullHasEveryRow)

\* A response of /sync/full that holds a soft-deleted note and a
\* soft-deleted association.
C32_Witness ==
    /\ request.pc = "answered"
    /\ request.route = "full"
    /\ \E r \in request.response.notes : r.deleted_at # None
    /\ \E r \in request.response.note_tags : r.deleted_at # None

----------------------------------------------------------------------------
\* Timestamps of the rows

\* C33: after any sequence of apply batches whose payloads are well
\* stamped (modified_at >= created_at, deleted_at >= created_at), every
\* note, tag and note-tag row in the store has modified_at >= created_at
\* when both are present and deleted_at >= created_at when present.
C33_RowsWellStamped ==
    /\ \A n \in NoteIds :
          notes[n].exists =>
              WellStamped(notes[n].created_at, notes[n].modified_at,
                          notes[n].deleted_at)
    /\ \A t \in TagIds :
          tags[t].exists =>
              WellStamped(tags[t].created_at, tags[t].modified_at, None)
    /\ \A p \in NoteTagIds :
          note_tags[p].exists =>
              WellStamped(note_tags[p].created_at, note_tags[p].modified_at,
                          note_tags[p].deleted_at)

----------------------------------------------------------------------------
\* Error kinds

\* The kind of the error handling design a variant belongs to; the other
\* variants belong to none of the five.
KindOf(variant) ==
    CASE variant = "Validation" -> "Validation"
      [] variant \in {"Database", "DatabaseOperation"} -> "Storage"
      [] variant \in {"Sync", "Network"} -> "Sync/Network"
      [] variant = "Tls" -> "TLS"
      [] variant \in {"NotFound", "Conflict"} -> "NotFound/Conflict"
      [] OTHER -> "none"

\* At a boundary, errors of two different kinds are raised as exceptions of
\* different types.
KindsDistinctAt(boundary) ==
    \A e1, e2 \in VoiceErrors :
        (/\ KindOf(e1.variant) # "none"
         /\ KindOf(e2.variant) # "none"
         /\ KindOf(e1.variant) # KindOf(e2.variant))
            => Raised(boundary, e1).type # Raised(boundary, e2).type

\* C34: the kinds Validation, Storage, Sync/Network, TLS and
\* NotFound/Conflict are mapped to pairwise different exception types at the
\* caller boundary: the exception raised for an error of one kind never has
\* the type of the exception raised for an error of another kind.
C34_KindsDistinct ==
    request.pc = "raised" =>
        \A other \in VoiceErrors :
            (/\ KindOf(request.err.variant) # "none"
             /\ KindOf(other.variant) # "none"
             /\ KindOf(other.variant) # KindOf(request.err.variant))
                => Raised(request.boundary, other).type
                       # request.exception.type

----------------------------------------------------------------------------
\* Tag names

\* The name, trimmed, is non-empty, at most 100 characters long and has no
\* slash.
StatedTagName(name) ==
    /\ trim(name) # <<>>
    /\ chars_count(trim(name)) <= MAX_TAG_NAME_LENGTH
    /\ ~contains(trim(name), "/")

\* C35: validate_tag_name accepts a name exactly when, after trimming, it is
\* non-empty, at most 100 characters long and contains no '/'; in every
\* other case it returns a Validation error for field tag_name.
C35_TagNameAccepted ==
    request.pc = "validated" =>
        /\ request.result.ok <=> StatedTagName(request.name)
        /\ ~request.result.ok =>
              /\ request.result.variant = "Validation"
              /\ request.result.field = "tag_name"

----------------------------------------------------------------------------
\* Paging

\* C36: the paging loop over /sync/changes terminates: for every store
\* content and every limit of the client, 0 and negative ones included, a
\* client that requests again with since = to_timestamp while is_complete is
\* false gets a response with is_complete = true, when the server writes
\* nothing during paging.
C36_PagingTerminates == (pager.pc = "paging") ~> (pager.pc = "done")

----------------------------------------------------------------------------
\* Start and stop in one process

\* C37: in any sequence of start_server and stop_server calls in one
\* process, a running server begins to shut down only after a stop_server
\* call made after its start (one that found it running, or one whose
\* signal is waiting in its channel), and a stop_server call that finds it
\* running always stops it.
C37_ServesUntilStopped ==
    /\ [][(server.place = "serving" /\ server'.place = "draining")
              => (server.stopped \/ server.rx = "sent")]_vars
    /\ server.stopped ~> server.place = "idle"

----------------------------------------------------------------------------
\* The peer list

\* C38: after any sequence of add_peer, remove_peer and
\* update_peer_certificate calls the peer list of the Config holds at most
\* one entry per peer_id, and add_peer with allow_update = false on a
\* peer_id that is configured fails with a Validation error and changes
\* nothing, in memory and in the file.
C38_OneEntryPerPeer ==
    config.open =>
        /\ \A peer_id \in PeerIds :
               Cardinality({i \in DOMAIN config.data.sync.peers :
                               config.data.sync.peers[i].peer_id = peer_id})
                   <= 1
        /\ \A peer_id \in ValidPeerIds, peer_name \in PeerNames,
              fingerprint \in GivenFingerprints, disk \in Disks :
               is_some(get_peer(config.data, peer_id)) =>
                   \E a \in {add_peer(config.data, config.file, peer_id,
                                      peer_name, PeerUrlOf(peer_name),
                                      fingerprint, FALSE, disk)} :
                       /\ ~a.ok
                       /\ a.error = "Validation"
                       /\ a.data = config.data
                       /\ a.file = config.file

\* add_peer has just refused a configured peer, on a list of two peers that
\* has seen a removal and an update.
C38_Witness ==
    /\ config.open
    /\ scope = "peers"
    /\ config.last.call = "add_peer"
    /\ config.last.error = "Validation"
    /\ config.last.peer_id \in ValidPeerIds
    /\ is_some(get_peer(config.data, config.last.peer_id))
    /\ Len(config.data.sync.peers) = 2

\* The fingerprint pinned for the peer in the data, if any.
PinOf(data, peer_id) ==
    IF is_some(get_peer(data, peer_id))
    THEN get_peer(data, peer_id)[1].certificate_fingerprint
    ELSE NoValue

\* C39: add_peer called without a fingerprint leaves the fingerprint pinned
\* for the peer as it is, whether it fails (allow_update = false) or updates
\* the name and the URL (allow_update = true); the pinned fingerprint of a
\* peer changes only by add_peer or update_peer_certificate, to the
\* fingerprint given, or by remove_peer.
C39_PinKept ==
    /\ [](config.open =>
            \A peer_id \in ValidPeerIds, peer_name \in PeerNames,
               allow_update \in BOOLEAN, disk \in Disks :
                is_some(PinOf(config.data, peer_id)) =>
                    \E a \in {add_peer(config.data, config.file, peer_id,
                                       peer_name, PeerUrlOf(peer_name),
                                       NoValue, allow_update, disk)} :
                        /\ PinOf(a.data, peer_id) = PinOf(config.data, peer_id)
                        /\ a.ok = allow_update \/ disk # "ok"
                        /\ a.ok => /\ get_peer(a.data, peer_id)[1].peer_name
                                        = peer_name
                                   /\ PinOf(Reloaded(a.file), peer_id)
                                        = PinOf(config.data, peer_id))
    /\ [][(config.open /\ config'.open) =>
            \A peer_id \in ValidPeerIds :
                (/\ is_some(PinOf(config.data, peer_id))
                 /\ PinOf(config'.data, peer_id) # PinOf(config.data, peer_id))
                    => \/ /\ config'.last.call = "remove_peer"
                          /\ config'.last.peer_id = peer_id
                       \/ /\ config'.last.call
                                \in {"add_peer", "update_peer_certificate"}
                          /\ config'.last.peer_id = peer_id
                          /\ is_some(PinOf(config'.data, peer_id))]_vars

\* An add_peer has succeeded on a peer whose fingerprint is pinned, and the
\* fingerprint is still pinned in memory and in the file.
C39_Witness ==
    /\ config.open
    /\ scope = "pins"
    /\ config.last.call = "add_peer"
    /\ config.last.ok
    /\ Len(config.data.sync.peers) = 2
    /\ \A peer_id \in ValidPeerIds :
          /\ is_some(PinOf(config.data, peer_id))
          /\ PinOf(Reloaded(config.file), peer_id) = PinOf(config.data, peer_id)

----------------------------------------------------------------------------
\* The association's created_at

\* The change reactivates the association: the local row is deleted and the
\* change is a create, or an update of a row that is active at the peer.
Reactivates(change, existing) ==
    /\ existing.deleted_at # None
    /\ \/ change.operation = "create"
       \/ change.operation = "update" /\ change.data.deleted_at = None

\* C40: when a note-tag change is applied to an association that exists
\* locally (delete, reactivation or update), the row keeps its own
\* created_at and takes modified_at and deleted_at from the payload, a
\* reactivated row being stored as active; the payload's created_at is
\* stored only when no local row existed.
C40_CreatedAtKept ==
    \A peer \in Peers :
    \A change \in {c \in NoteTagChanges : c.entity_id \in NoteTagIds} :
        LET existing == note_tags[change.entity_id]
            out == Outcome(peer, change)
            row == out.db.note_tags[change.entity_id]
        IN  /\ (existing.exists /\ row # existing) =>
                  /\ out.result \in {"Applied", "Conflict"}
                  /\ row.created_at = existing.created_at
                  /\ row.modified_at = change.data.modified_at
                  /\ row.deleted_at =
                        IF Reactivates(change, existing) THEN None
                        ELSE change.data.deleted_at
            /\ (existing.exists /\ out.result = "Applied") =>
                  row.created_at = existing.created_at
            /\ (~existing.exists /\ out.result = "Applied") =>
                  row.created_at = change.data.created_at
            /\ (existing.exists /\ row.created_at = change.data.created_at) =>
                  existing.created_at = change.data.created_at

\* An association created at instant 2 is active, and a delete and an
\* update of a peer that saw it created at instant 1 would be applied.
C40_Witness ==
    /\ scope = "note_tag"
    /\ note_tags[<<"n1", "x">>].exists
    /\ note_tags[<<"n1", "x">>].created_at = 2
    /\ \E peer \in Peers :
          /\ Outcome(peer, NoteTagChange(<<"n1", "x">>, "delete", 1, None, 3)).result
                = "Applied"
          /\ Outcome(peer, NoteTagChange(<<"n1", "x">>, "update", 1, 3, None)).result
                = "Applied"

====
